---- MODULE Spec2Model ----
(***************************************************************************)
(* Secure telemetry ingestion: the per-device key store (KeyManager), the *)
(* Ascon codec (AsconCrypto) and the MQTT message handler of the backend  *)
(* (on_mqtt_message, process_patient_data).                               *)
(*                                                                         *)
(* Strings that the code splits or suffixes are sequences of tokens:      *)
(* a device_id <<"1","7">> is the string "1_7" (tokens joined by '_'),    *)
(* so device_id + "_old" is Append(id, "old"), device_id.split('_')[-1]   *)
(* is the last token and '_' in device_id is Len(id) > 1.  A topic is the *)
(* sequence of its '/'-separated segments.                                *)
(***************************************************************************)
EXTENDS Integers, Sequences, FiniteSets, TLC, Bags

VARIABLES
    keys,       \* KeyManager.keys: dict device_id -> record (backend instance)
    key_file,   \* content of the JSON key file written by _save_keys
    km_last,    \* observation of the last KeyManager call: op, id, result, record before
    crypto_env,           \* what the backend could import: crypto_utils and the ascon library
    patient_data_store,   \* dict patient_key -> list of readings
    gauges,               \* Prometheus vitals gauges: dict <<field, labels>> -> value
    security_metrics,     \* encrypted/plain totals, decryption success and failure counts
    latency_metrics,      \* histogram observations, per histogram a set of <<device, ms>>
    current_latency,      \* dict device -> latest decryption/processing/end_to_end/network
    subscriber_running,   \* the loop_forever thread is alive
    handled,              \* number of messages handed to on_mqtt_message so far
    last,                 \* observation of the last on_mqtt_message call
    threads,              \* per thread inside a KeyManager method: position and locals
    file_state,           \* the key file on disk: "absent", "complete" (valid JSON) or "partial"
    process_up,           \* the process that owns the KeyManager is alive
    disk_last,            \* observation of the last call or restart in the disk model
    codec,                \* one use of AsconCrypto: inputs, the object, what each call gave
    b64,                  \* one use of encode_payload / decode_payload: inputs and results
    posted,               \* number of /track requests handled so far
    dispatch_log,         \* per patient key, every reading handed to process_patient_data
    sub,                  \* the backend process step by step: __main__, the subscriber thread
    sink,                 \* the storage sink: its key configuration and the requests it got
    racers,               \* per thread inside process_patient_data: position and locals
    sim,                  \* the patient simulator: its key store, MQTT flag and last publish
    pool                  \* simulate_traffic: the batch loop and its thread pool

km_vars == <<keys, key_file, km_last>>

pipe_vars == <<crypto_env, patient_data_store, gauges, security_metrics, latency_metrics,
               current_latency, subscriber_running, handled, last>>

thread_vars == <<threads>>

disk_vars == <<file_state, process_up, disk_last>>

codec_vars == <<codec, b64>>

track_vars == <<posted, dispatch_log>>

ext_vars == <<sub, sink, racers, sim, pool>>

vars == <<keys, key_file, km_last, crypto_env, patient_data_store, gauges, security_metrics,
          latency_metrics, current_latency, subscriber_running, handled, last, threads,
          file_state, process_up, disk_last, codec, b64, posted, dispatch_log, sub, sink,
          racers, sim, pool>>

(***************************************************************************)
(* Bounds                                                                  *)
(***************************************************************************)
\* number of distinct values os.urandom(16).hex() is drawn from
NumKeys == 2
\* number of messages the broker delivers to the subscriber
MaxMessages == 2
\* number of KeyManager calls followed in the disk model
MaxDiskCalls == 2
\* longest byte string handed to encode_payload
MaxBytes == 3
\* number of /track requests followed
MaxPosts == 150

KeyValues == 1..NumKeys

\* the device identifiers callers hand to the key store: "1_7", "1_7_old", "1_8"
DeviceIds == {<<"1", "7">>, <<"1", "7", "old">>, <<"1", "8">>}

(***************************************************************************)
(* KeyManager (crypto_utils.py)                                            *)
(***************************************************************************)
\* a value of the keys dict; status "none" is a record without a 'status' field
KeyRecord(k, s, st) == [key |-> k, status |-> s, stamps |-> st]

\* f"{device_id}_old"
OldAlias(id) == Append(id, "old")

\* dict item assignment  d[k] = v
DictSet(d, k, v) == [x \in (DOMAIN d) \cup {k} |-> IF x = k THEN v ELSE d[x]]

EmptyDict == [x \in {} |-> 0]

\* what a KeyManager method hands back: the dict after the call, the returned
\* value (0 is None), the exception that escaped ("none" when it returned),
\* whether _save_keys ran and whether os.urandom produced the returned key
KMResult(ks, r, e, sv, g) == [keys |-> ks, ret |-> r, exc |-> e, saved |-> sv, gen |-> g]

provision_device(ks, id, rnd) ==
    IF id \in DOMAIN ks
    THEN KMResult(ks, ks[id].key, "none", FALSE, FALSE)
    ELSE KMResult(DictSet(ks, id, KeyRecord(rnd, "active", {"created_at"})),
                  rnd, "none", TRUE, TRUE)

\* mutant: a record that is not active is re-provisioned instead of refused
get_device_key_reprovision(ks, id, rnd) ==
    IF id \notin DOMAIN ks \/ ks[id].status # "active"
    THEN KMResult(DictSet(ks, id, KeyRecord(rnd, "active", {"created_at"})),
                  rnd, "none", TRUE, TRUE)
    ELSE KMResult(ks, ks[id].key, "none", FALSE, FALSE)

get_device_key(ks, id, rnd) ==
    IF id \notin DOMAIN ks
    THEN provision_device(ks, id, rnd)
    ELSE IF ks[id].status # "active"
         THEN KMResult(ks, 0, "ValueError", FALSE, FALSE)
         ELSE KMResult(ks, ks[id].key, "none", FALSE, FALSE)

\* mutant: revoking an unknown device leaves a revoked record behind
revoke_device_creates_record(ks, id) ==
    KMResult(DictSet(ks, id, [(IF id \in DOMAIN ks THEN ks[id] ELSE KeyRecord(0, "absent", {})) EXCEPT !.status = "revoked",
                                                              !.stamps = @ \cup {"revoked_at"}]),
             0, "none", TRUE, FALSE)

revoke_device(ks, id) ==
    IF id \in DOMAIN ks
    THEN KMResult(DictSet(ks, id, [ks[id] EXCEPT !.status = "revoked",
                                                 !.stamps = @ \cup {"revoked_at"}]),
                  0, "none", TRUE, FALSE)
    ELSE KMResult(ks, 0, "none", FALSE, FALSE)

\* mutant: the current key is overwritten without being archived
rotate_key_no_archive(ks, id, rnd) ==
    KMResult(DictSet(ks, id, KeyRecord(rnd, "active", {"rotated_at"})), rnd, "none", TRUE, TRUE)

rotate_key(ks, id, rnd) ==
    LET archived == IF id \in DOMAIN ks
                    THEN DictSet(ks, OldAlias(id), KeyRecord(ks[id].key, "none", {"archived_at"}))
                    ELSE ks
    IN  KMResult(DictSet(archived, id, KeyRecord(rnd, "active", {"rotated_at"})),
                 rnd, "none", TRUE, TRUE)

\* _save_keys: json.dump of the whole dict into the key file
SaveKeys(r) == IF r.saved THEN r.keys ELSE key_file

\* the record of id before a call (a record without status or key when absent)
NoRecord == KeyRecord(0, "absent", {})
RecordOf(ks, id) == IF id \in DOMAIN ks THEN ks[id] ELSE NoRecord

(***************************************************************************)
(* Python values.  An envelope field is a tagged value: t is its Python    *)
(* type ("absent" when the JSON object has no such field), v its content.  *)
(***************************************************************************)
Val(t, v) == [t |-> t, v |-> v]

\* the exceptions that are ValueError or a subclass of it
IsValueError(exc) ==
    exc \in {"ValueError", "UnicodeDecodeError", "JSONDecodeError", "binascii.Error"}

\* d[k] = d.get(k, 0) + 1, the effect of .labels(k).inc() on a labelled metric
Inc(d, k) == DictSet(d, k, IF k \in DOMAIN d THEN d[k] + 1 ELSE 1)

(***************************************************************************)
(* AsconCrypto (crypto_utils.py).  ascon.encrypt is an ideal AEAD: its     *)
(* output names the key, nonce and plaintext that produced it, and         *)
(* authenticates only under that key and nonce and only when untouched.    *)
(***************************************************************************)
NonceLen == 16
KeyLen == 16

\* a byte string used as nonce: its length and which string of that length
Nonce(len, id) == [len |-> len, id |-> id]

\* the default `nonce=None` of encrypt
NoneNonce == Nonce(-1, 0)

\* a key_hex string: the key it spells, how many bytes long, and whether the
\* text is hexadecimal at all
HexKey(id, bytes, hex) == [id |-> id, bytes |-> bytes, hex |-> hex]

\* JSON values carried as plaintext: an object d, the list [d, y], a number y
JDict(d) == [t |-> "dict", d |-> d, y |-> 0]
JList(d, y) == [t |-> "list", d |-> d, y |-> y]
JNum(y) == [t |-> "num", d |-> EmptyDict, y |-> y]

\* json.dumps(payload).encode('utf-8'): the JSON text of a value
json_dumps(v) ==
    [kind |-> CASE v.t = "dict" -> "object" [] v.t = "list" -> "array" [] OTHER -> "number",
     members |-> v.d, number |-> v.y]

\* mutant: a JSON object is read back as an array
json_loads_object_as_array(text) ==
    [t |-> IF text.kind = "number" THEN "num" ELSE "list",
     d |-> text.members, y |-> text.number]

\* json.loads(plaintext.decode('utf-8'))
json_loads(text) ==
    [t |-> CASE text.kind = "object" -> "dict" [] text.kind = "array" -> "list" [] OTHER -> "num",
     d |-> text.members, y |-> text.number]

ascon_encrypt(key, nonce, plaintext) ==
    [k |-> key, n |-> nonce, p |-> plaintext, tampered |-> FALSE]

\* what a call that raised leaves in place of a ciphertext or a payload
NoCiphertextBytes == [k |-> 0, n |-> Nonce(0, 0), p |-> json_dumps(JNum(0)), tampered |-> TRUE]
NoPayload == JNum(0)

\* AsconCrypto.__init__: the object (its key), or the exception raised
AsconCrypto_init(key_hex, env) ==
    CASE env = "no_ascon" -> [exc |-> "ImportError", key |-> 0]
      [] ~key_hex.hex -> [exc |-> "ValueError", key |-> 0]          \* bytes.fromhex
      [] key_hex.bytes # KeyLen -> [exc |-> "ValueError", key |-> 0]
      [] OTHER -> [exc |-> "none", key |-> key_hex.id]

\* ascon.decrypt returns None when the tag does not verify
ascon_decrypt(key, nonce, ct) ==
    IF ct.k = key /\ ct.n = nonce /\ ~ct.tampered
    THEN Val("bytes", ct.p)
    ELSE Val("None", ct.p)

\* mutant: a nonce of any length is used as it comes
AsconCrypto_encrypt_any_nonce(key, payload, nonce, rnd) ==
    LET used == IF nonce = NoneNonce THEN Nonce(NonceLen, rnd) ELSE nonce
    IN  [exc |-> "none", ciphertext |-> ascon_encrypt(key, used, json_dumps(payload)),
         nonce |-> used]

\* encrypt: rnd is the nonce os.urandom(16) yields when none is passed
AsconCrypto_encrypt(key, payload, nonce, rnd) ==
    LET used == IF nonce = NoneNonce THEN Nonce(NonceLen, rnd) ELSE nonce
    IN  IF used.len # NonceLen
        THEN [exc |-> "ValueError", ciphertext |-> NoCiphertextBytes, nonce |-> used]
        ELSE [exc |-> "none", ciphertext |-> ascon_encrypt(key, used, json_dumps(payload)),
              nonce |-> used]

\* mutant: the plaintext is returned whether or not the tag verified
AsconCrypto_decrypt_unverified(key, ciphertext, nonce) ==
    IF nonce.len # NonceLen
    THEN [exc |-> "ValueError", payload |-> NoPayload]
    ELSE [exc |-> "none", payload |-> json_loads(ciphertext.p)]

\* returns the decrypted payload alone (a dict), or raises ValueError
AsconCrypto_decrypt(key, ciphertext, nonce) ==
    IF nonce.len # NonceLen
    THEN [exc |-> "ValueError", payload |-> NoPayload]
    ELSE LET plaintext == ascon_decrypt(key, nonce, ciphertext)
         IN  IF plaintext.t = "None"
             THEN [exc |-> "ValueError", payload |-> NoPayload]   \* None.decode(...)
             ELSE [exc |-> "none", payload |-> json_loads(plaintext.v)]

(***************************************************************************)
(* encode_payload / decode_payload (crypto_utils.py).  A byte string is a  *)
(* sequence of numbers 0..255; base64 text is the sequence of its          *)
(* characters, each the index 0..63 of a digit of the base64 alphabet or   *)
(* 64 for the padding character '='.                                       *)
(***************************************************************************)
Pad == 64

\* four characters for up to three bytes
B64Group(bytes) ==
    CASE Len(bytes) = 3 ->
           LET n == bytes[1] * 65536 + bytes[2] * 256 + bytes[3]
           IN  <<n \div 262144, (n \div 4096) % 64, (n \div 64) % 64, n % 64>>
      [] Len(bytes) = 2 ->
           LET n == (bytes[1] * 256 + bytes[2]) * 4
           IN  <<n \div 4096, (n \div 64) % 64, n % 64, Pad>>
      [] OTHER ->
           LET n == bytes[1] * 16
           IN  <<n \div 64, n % 64, Pad, Pad>>

\* base64.b64encode(bytes).decode('utf-8')
RECURSIVE b64encode(_)
b64encode(bytes) ==
    IF bytes = <<>> THEN <<>>
    ELSE IF Len(bytes) <= 3 THEN B64Group(bytes)
    ELSE B64Group(SubSeq(bytes, 1, 3)) \o b64encode(SubSeq(bytes, 4, Len(bytes)))

\* the bytes of four characters, the padding included as zero bits
B64Ungroup(chars) ==
    LET digit(i) == IF chars[i] = Pad THEN 0 ELSE chars[i]
        n == digit(1) * 262144 + digit(2) * 4096 + digit(3) * 64 + digit(4)
    IN  <<n \div 65536, (n \div 256) % 256, n % 256>>

\* mutant: the bytes that stand for padding are kept
RECURSIVE b64decode_keeps_padding(_)
b64decode_keeps_padding(text) ==
    IF text = <<>> THEN <<>>
    ELSE B64Ungroup(SubSeq(text, 1, 4)) \o b64decode_keeps_padding(SubSeq(text, 5, Len(text)))

\* base64.b64decode(text) of padded text
RECURSIVE b64decode(_)
b64decode(text) ==
    IF text = <<>> THEN <<>>
    ELSE LET group == SubSeq(text, 1, 4)
             bytes == B64Ungroup(group)
             kept == CASE group[3] = Pad -> 1 [] group[4] = Pad -> 2 [] OTHER -> 3
         IN  SubSeq(bytes, 1, kept) \o b64decode(SubSeq(text, 5, Len(text)))

encode_payload(ciphertext, nonce) ==
    [ciphertext |-> b64encode(ciphertext), nonce |-> b64encode(nonce)]

\* binascii.Error when the text is no whole number of groups
decode_payload(encoded) ==
    IF Len(encoded.ciphertext) % 4 # 0 \/ Len(encoded.nonce) % 4 # 0
    THEN [exc |-> "binascii.Error", ciphertext |-> <<>>, nonce |-> <<>>]
    ELSE [exc |-> "none", ciphertext |-> b64decode(encoded.ciphertext),
          nonce |-> b64decode(encoded.nonce)]

(***************************************************************************)
(* The backend (app_encrypted.py)                                          *)
(***************************************************************************)
\* keys of the `metrics` dict of gauges
GaugeFields == {"heart_rate", "bp_systolic", "bp_diastolic", "respiratory_rate", "spo2",
                "etco2", "fio2", "temperature", "wbc_count", "lactate", "blood_glucose",
                "anomaly_score"}

\* the rolling store keeps the latest 100 readings per patient
StoreCap == 100

\* time.time() at receipt, and the durations the handler measures, in ms
ReceiveMs == 10
ProcessingMs == 1
TotalMs == 3

\* normalized_score of a successful /predict call
MLScore == 1

\* the key a device_id value has in a dict or label set; an int is a key of its own
DevKey(device_id) == IF device_id.t = "int" THEN <<"#int">> ELSE device_id.v

\* ward.replace('ward_', 'dept_') on the '_'-separated tokens of ward
WardToDept(ward) ==
    [i \in 1..Len(ward) |-> IF i < Len(ward) /\ ward[i] = "ward" THEN "dept" ELSE ward[i]]

\* the state the handler reads and writes
PipeState ==
    [keys |-> keys, key_file |-> key_file, store |-> patient_data_store, gauges |-> gauges,
     sec |-> security_metrics, hist |-> latency_metrics, cur |-> current_latency]

\* latency_metrics[name].labels(device_id=...).observe(ms)
Observe(st, name, dev, ms) ==
    [st EXCEPT !.hist = [@ EXCEPT ![name] = @ \cup {<<dev, ms>>}]]

\* current_latency[device_id][field] = ms, on the defaultdict
DefaultLatency == [decryption |-> 0, processing |-> 0, end_to_end |-> 0,
                   has_network |-> FALSE, network |-> 0]

SetLatency(st, dev, field, ms) ==
    LET entry == IF dev \in DOMAIN st.cur THEN st.cur[dev] ELSE DefaultLatency
        upd == IF field = "network"
               THEN [entry EXCEPT !.has_network = TRUE, !.network = ms]
               ELSE [entry EXCEPT ![field] = ms]
    IN  [st EXCEPT !.cur = DictSet(@, dev, upd)]

\* mutant: a rejected message leaves an empty reading in the rolling store
CountFailure_stores_reading(st, dev, reason) ==
    [st EXCEPT !.sec.decryption_failure = Inc(@, <<dev, reason>>),
               !.store = DictSet(@, <<"unknown">>, <<EmptyDict>>)]

\* security_metrics['decryption_failure'].labels(device_id, reason).inc()
CountFailure(st, dev, reason) ==
    [st EXCEPT !.sec.decryption_failure = Inc(@, <<dev, reason>>)]

\* the gauge updates of process_patient_data, over the fields of `metrics`
RECURSIVE SetGauges(_, _, _, _)
SetGauges(g, fields, vitals, labels) ==
    IF fields = {} THEN g
    ELSE LET f == CHOOSE x \in fields : TRUE
             g1 == IF f \in DOMAIN vitals THEN DictSet(g, <<f, labels>>, vitals[f]) ELSE g
         IN  SetGauges(g1, fields \ {f}, vitals, labels)

\* mutant: the oldest n readings are kept and the newest dropped
LastN_keeps_oldest(list, n) == IF Len(list) > n THEN SubSeq(list, 1, n) ELSE list

\* list[-100:]
LastN(list, n) == IF Len(list) > n THEN SubSeq(list, Len(list) - n + 1, Len(list)) ELSE list

\* the reading stored: the vitals dict with the metadata keys set
WithMetadata(vitals, hospital, dept, ward, patient_id) ==
    [x \in (DOMAIN vitals) \cup {"hospital", "dept", "ward", "patient"} |->
        CASE x = "hospital" -> hospital
          [] x = "dept" -> dept
          [] x = "ward" -> ward
          [] x = "patient" -> patient_id
          [] OTHER -> vitals[x]]

process_patient_data(st, vitals, hospital, dept, ward, patient_id) ==
    LET labels == <<hospital, dept, ward, patient_id>>
        patient_key == <<hospital, dept, ward, patient_id>>
        old == IF patient_key \in DOMAIN st.store THEN st.store[patient_key] ELSE <<>>
        new == Append(old, WithMetadata(vitals, hospital, dept, ward, patient_id))
    IN  [st EXCEPT !.gauges = SetGauges(@, GaugeFields, vitals, labels),
                   !.store = DictSet(@, patient_key, LastN(new, StoreCap))]

\* what on_mqtt_message has done when it ends: the state it leaves, the
\* exception raised inside its try block ("none" when the block completed or
\* returned), the decryption_failure reason counted ("none" when none was),
\* the functions it called, and whether process_patient_data ran
Outcome(st, exc, reason, calls, dispatched) ==
    [st |-> st, exc |-> exc, reason |-> reason, calls |-> calls, dispatched |-> dispatched]

\* `vitals, decryption_time_ms = crypto.decrypt(...)`: unpacking iterates the
\* returned value; a dict yields its keys, and any length but 2 is a ValueError
Unpack(payload) ==
    CASE payload.t = "dict" ->
           IF Cardinality(DOMAIN payload.d) = 2
           THEN [exc |-> "none", vitals |-> Val("str", payload.d), time |-> Val("str", 0)]
           ELSE [exc |-> "ValueError", vitals |-> Val("str", payload.d), time |-> Val("str", 0)]
      [] payload.t = "list" ->
           [exc |-> "none", vitals |-> Val("dict", payload.d), time |-> Val("num", payload.y)]
      [] OTHER ->
           [exc |-> "TypeError", vitals |-> Val("num", payload.d), time |-> Val("num", 0)]

\* base64.b64decode of an envelope field; v.valid says the text is base64
B64DecodeExc(field) ==
    CASE field.t = "int" -> "TypeError"
      [] ~field.v.valid -> "binascii.Error"
      [] OTHER -> "none"

\* the inner try block of the encrypted branch (lines 296-321)
DecryptEnvelope(st, m, dev, net, rnd) ==
    LET fail(s, exc, calls) ==
            [st |-> s, exc |-> exc, calls |-> calls, vitals |-> Val("num", EmptyDict)]
    IN
    IF m.ciphertext.t = "absent" \/ m.nonce.t = "absent"
    THEN fail(st, "KeyError", {})
    ELSE IF B64DecodeExc(m.ciphertext) # "none"
    THEN fail(st, B64DecodeExc(m.ciphertext), {"decode_payload"})
    ELSE IF B64DecodeExc(m.nonce) # "none"
    THEN fail(st, B64DecodeExc(m.nonce), {"decode_payload"})
    ELSE
    LET got == get_device_key(st.keys, dev, rnd)
        st1 == [st EXCEPT !.keys = got.keys,
                          !.key_file = IF got.saved THEN got.keys ELSE @]
        c1 == {"decode_payload", "get_device_key"}
    IN
    IF got.exc # "none"
    THEN fail(st1, got.exc, c1)
    ELSE
    LET crypto == AsconCrypto_init(HexKey(got.ret, KeyLen, TRUE), crypto_env)
    IN
    IF crypto.exc # "none"
    THEN fail(st1, crypto.exc, c1 \cup {"AsconCrypto"})
    ELSE
    LET dec == AsconCrypto_decrypt(crypto.key, m.ciphertext.v.bytes, m.nonce.v.bytes)
        c2 == c1 \cup {"AsconCrypto", "decrypt"}
    IN
    IF dec.exc # "none"
    THEN fail(st1, dec.exc, c2)
    ELSE
    LET un == Unpack(dec.payload)
    IN
    IF un.exc # "none"
    THEN fail(st1, un.exc, c2)
    ELSE IF un.time.t # "num"
    THEN fail(st1, "TypeError", c2)     \* Histogram.observe(<str>)
    ELSE
    LET st2 == Observe(st1, "decryption", dev, un.time.v)
        st3 == [st2 EXCEPT !.sec.decryption_success = Inc(@, dev)]
        st4 == SetLatency(SetLatency(st3, dev, "decryption", un.time.v), dev, "network", net)
    IN  [st |-> st4, exc |-> "none", calls |-> c2, vitals |-> un.vitals]

\* what requests.post to the scorer can give: a 200 reply with a score, another
\* status, no reply within timeout=3, or no connection
MLReplies == {"ok", "non_200", "timeout", "refused"}

\* mutant: a failed request is scored like a successful one
call_ml_service_scores_failure(vitals_data, reply) ==
    [exc |-> "none", score |-> MLScore]

\* call_ml_service (lines 112-150): the score of a 200 reply, 0.0 for any
\* other status and for every exception; nothing is raised
call_ml_service(vitals_data, reply) ==
    [exc |-> "none", score |-> IF reply = "ok" THEN MLScore ELSE 0]

\* lines 343-368: scoring, storage, dispatch and the latency bookkeeping
Dispatch(st, m, vitals, hospital, dept, ward, patient_id, dev, net, ts, ml, calls) ==
    CASE vitals.t = "num" ->
           Outcome(st, "TypeError", "none", calls, FALSE)
      [] vitals.t \in {"list", "str"} ->
           Outcome(st, "TypeError", "none", calls \cup {"call_ml_service"}, FALSE)
      [] OTHER ->
           LET d == vitals.v
               need_ml == "anomaly_score" \notin DOMAIN d \/ d["anomaly_score"] = 0
               scoring == call_ml_service(d, ml)
               scored == IF need_ml THEN DictSet(d, "anomaly_score", scoring.score) ELSE d
               c1 == calls \cup (IF need_ml THEN {"call_ml_service"} ELSE {})
                           \cup {"save_vitals_to_database", "process_patient_data"}
               st1 == process_patient_data(st, scored, hospital, dept, ward, patient_id)
               st2 == Observe(st1, "processing", dev, ProcessingMs)
               end_to_end == net + TotalMs
               st3 == IF end_to_end > 0 /\ ts > 0
                      THEN SetLatency(Observe(st2, "end_to_end", dev, end_to_end),
                                      dev, "end_to_end", end_to_end)
                      ELSE st2
               st4 == SetLatency(st3, dev, "processing", ProcessingMs)
           IN  IF need_ml /\ scoring.exc # "none"
               THEN Outcome(st, scoring.exc, "none", calls \cup {"call_ml_service"}, FALSE)
               ELSE Outcome(st4, "none", "none", c1, TRUE)

\* the two except clauses of the inner try (lines 323-336)
FailureReason(exc) == IF IsValueError(exc) THEN "auth_failed" ELSE "decryption_error"

\* mutant: a plain message is counted as an encrypted one
CountMessage_always_encrypted(st, is_encrypted) ==
    [st EXCEPT !.sec.encrypted_messages = @ + 1]

\* mutant: an encrypted message is counted twice
CountMessage_counts_twice(st, is_encrypted) ==
    IF is_encrypted
    THEN [st EXCEPT !.sec.encrypted_messages = @ + 2]
    ELSE [st EXCEPT !.sec.plain_messages = @ + 1]

\* lines 286 and 339: the message totals
CountMessage(st, is_encrypted) ==
    IF is_encrypted
    THEN [st EXCEPT !.sec.encrypted_messages = @ + 1]
    ELSE [st EXCEPT !.sec.plain_messages = @ + 1]

\* the try block of on_mqtt_message (lines 253-368)
TryBlock(st, m, rnd, ml) ==
    CASE m.form = "not_utf8" -> Outcome(st, "UnicodeDecodeError", "none", {}, FALSE)
      [] m.form = "bad_json" -> Outcome(st, "JSONDecodeError", "none", {}, FALSE)
      [] m.form = "non_dict" -> Outcome(st, "AttributeError", "none", {}, FALSE)
      [] OTHER ->
    LET device_id == IF m.device_id.t = "absent" THEN Val("str", <<"unknown">>) ELSE m.device_id
        dev == DevKey(device_id)
        hospital == IF m.hospital.t = "absent" THEN "unknown" ELSE m.hospital.v
        ward == IF m.ward.t = "absent" THEN Val("str", <<"unknown">>) ELSE m.ward
        is_encrypted == m.encrypted.t # "absent" /\ m.encrypted.v
        ts == IF m.timestamp_us.t = "absent" THEN 0 ELSE m.timestamp_us.v
    IN
    IF m.timestamp_us.t = "str"
    THEN Outcome(st, "TypeError", "none", {}, FALSE)       \* '<str>' > 0
    ELSE
    LET net == IF ts > 0 THEN ReceiveMs - (ts \div 1000) ELSE 0
        st1 == IF ts > 0 /\ net > 0 THEN Observe(st, "mqtt_receive", dev, net) ELSE st
    IN
    IF Len(m.topic) < 6 /\ device_id.t = "int"
    THEN Outcome(st1, "TypeError", "none", {}, FALSE)      \* '_' in <int>
    ELSE
    LET patient_id == IF Len(m.topic) >= 6 THEN m.topic[6]
                      ELSE IF Len(device_id.v) > 1 THEN device_id.v[Len(device_id.v)]
                      ELSE "unknown"
    IN
    IF ward.t = "int"
    THEN Outcome(st1, "AttributeError", "none", {}, FALSE)  \* <int>.replace
    ELSE
    LET dept == WardToDept(ward.v)
        st2 == CountMessage(st1, is_encrypted)
    IN
    IF is_encrypted
    THEN IF crypto_env = "no_crypto_utils"
         THEN Outcome(CountFailure(st2, dev, "crypto_unavailable"), "none",
                      "crypto_unavailable", {}, FALSE)
         ELSE LET r == DecryptEnvelope(st2, m, dev, net, rnd)
              IN  IF r.exc # "none"
                  THEN Outcome(CountFailure(r.st, dev, FailureReason(r.exc)), "none",
                               FailureReason(r.exc), r.calls, FALSE)
                  ELSE Dispatch(r.st, m, r.vitals, hospital, dept, ward.v, patient_id,
                                dev, net, ts, ml, r.calls)
    ELSE LET vitals == IF m.vitals.t = "absent" THEN Val("dict", EmptyDict) ELSE m.vitals
         IN  Dispatch(st2, m, vitals, hospital, dept, ward.v, patient_id,
                      dev, net, ts, ml, {})

\* mutant: only the JSON clause remains, any other exception leaves the handler
OuterExcept_json_only(exc) == IF exc = "JSONDecodeError" THEN "none" ELSE exc

\* the except clauses of the outer try (lines 370-375): the exception that
\* leaves on_mqtt_message; JSONDecodeError and every Exception are caught
OuterExcept(exc) ==
    IF exc = "JSONDecodeError" \/ exc \in {"UnicodeDecodeError", "AttributeError", "TypeError",
                                            "KeyError", "ValueError", "ImportError",
                                            "binascii.Error"}
    THEN "none"
    ELSE exc

on_mqtt_message(st, m, rnd, ml) ==
    LET out == TryBlock(st, m, rnd, ml)
    IN  out @@ [escaped |-> OuterExcept(out.exc)]

KMCall(op, id, r) ==
    /\ keys' = r.keys
    /\ key_file' = SaveKeys(r)
    /\ km_last' = [op |-> op, id |-> id, ret |-> r.ret, exc |-> r.exc, gen |-> r.gen,
                   pre |-> RecordOf(keys, id)]
    /\ file_state' = (IF r.saved THEN "complete" ELSE file_state)
    /\ UNCHANGED <<pipe_vars, thread_vars, process_up, disk_last, codec_vars, track_vars, ext_vars>>

Provision == \E id \in DeviceIds, rnd \in KeyValues :
    KMCall("provision", id, provision_device(keys, id, rnd))

GetKey == \E id \in DeviceIds, rnd \in KeyValues :
    KMCall("get_key", id, get_device_key(keys, id, rnd))

Revoke == \E id \in DeviceIds :
    KMCall("revoke", id, revoke_device(keys, id))

Rotate == \E id \in DeviceIds, rnd \in KeyValues :
    KMCall("rotate", id, rotate_key(keys, id, rnd))

(***************************************************************************)
(* Envelopes                                                               *)
(***************************************************************************)
Device17 == <<"1", "7">>
Topic17 == <<"hospital", "1", "ward", "2", "patient", "7">>

HeartRate == [x \in {"heart_rate"} |-> 72]
HeartRateSpo2 == [x \in {"heart_rate", "spo2"} |-> IF x = "heart_rate" THEN 72 ELSE 98]
Scored == [x \in {"heart_rate", "spo2", "anomaly_score"} |->
              CASE x = "heart_rate" -> 80 [] x = "spo2" -> 98 [] OTHER -> 1]

\* what a device encrypts: a vitals dict, and (no dict) a list [vitals, number] or a number
Payloads == {JDict(HeartRateSpo2), JDict(Scored), JList(HeartRateSpo2, 1), JNum(5)}

Nonce16 == Nonce(16, 1)
Nonce15 == Nonce(15, 1)

B64(bytes) == Val("str", [valid |-> TRUE, bytes |-> bytes])
BadB64(bytes) == Val("str", [valid |-> FALSE, bytes |-> bytes])

NoCiphertext == Val("absent", [valid |-> FALSE, bytes |-> NoCiphertextBytes])
NoNonce == Val("absent", [valid |-> FALSE, bytes |-> Nonce16])

\* sender timestamps in microseconds: 4 ms before receipt, 2 ms and 20 ms after it
TsPast == 6000
TsSoon == 12000
TsLater == 30000

\* the envelope publish_encrypted_vitals builds around encode_payload(encrypt(payload))
Encrypted(key, payload) ==
    LET enc == AsconCrypto_encrypt(key, payload, Nonce16, 1)
    IN  [form |-> "dict", topic |-> Topic17,
         device_id |-> Val("str", Device17), hospital |-> Val("str", "1"),
         ward |-> Val("str", <<"2">>), encrypted |-> Val("bool", TRUE),
         timestamp_us |-> Val("int", TsPast),
         ciphertext |-> B64(enc.ciphertext), nonce |-> B64(enc.nonce),
         vitals |-> Val("absent", EmptyDict)]

\* the plaintext envelope of the fallback mode
Plain(vitals) ==
    [form |-> "dict", topic |-> Topic17,
     device_id |-> Val("str", Device17), hospital |-> Val("str", "1"),
     ward |-> Val("str", <<"2">>), encrypted |-> Val("bool", FALSE),
     timestamp_us |-> Val("absent", 0),
     ciphertext |-> NoCiphertext, nonce |-> NoNonce,
     vitals |-> vitals]

\* envelopes whose ciphertext or nonce field is damaged
BrokenCrypto(m) ==
    { [m EXCEPT !.nonce = B64(Nonce15)],
      [m EXCEPT !.nonce = BadB64(Nonce16)],
      [m EXCEPT !.nonce = NoNonce],
      [m EXCEPT !.ciphertext = NoCiphertext],
      [m EXCEPT !.ciphertext = BadB64(m.ciphertext.v.bytes)],
      [m EXCEPT !.ciphertext = Val("int", m.ciphertext.v)],
      [m EXCEPT !.ciphertext = B64([m.ciphertext.v.bytes EXCEPT !.tampered = TRUE])] }

\* envelopes whose routing fields differ: other types, other values, other topics
OtherRouting(m) ==
    { [m EXCEPT !.device_id = Val("absent", <<>>)],
      [m EXCEPT !.device_id = Val("int", <<>>)],
      [m EXCEPT !.device_id = Val("str", OldAlias(Device17))],
      [m EXCEPT !.ward = Val("int", <<>>)],
      [m EXCEPT !.ward = Val("str", <<"ward", "2">>)],
      [m EXCEPT !.ward = Val("absent", <<>>)],
      [m EXCEPT !.hospital = Val("str", "9")],
      [m EXCEPT !.hospital = Val("absent", "")],
      [m EXCEPT !.encrypted = Val("absent", FALSE)],
      [m EXCEPT !.topic = <<"hospital", "1", "ward">>],
      [m EXCEPT !.topic = <<"hospital", "1", "ward">>, !.device_id = Val("int", <<>>)],
      [m EXCEPT !.topic = <<"hospital", "1", "ward">>, !.device_id = Val("str", <<"gateway">>)],
      [m EXCEPT !.topic = Topic17 \o <<"extra">>],
      [m EXCEPT !.topic = Topic17 \o <<"extra">>, !.device_id = Val("str", <<"gateway">>)] }

\* envelopes with another sender timestamp
OtherTimestamp(m) ==
    { [m EXCEPT !.timestamp_us = Val("absent", 0)],
      [m EXCEPT !.timestamp_us = Val("int", TsPast)],
      [m EXCEPT !.timestamp_us = Val("int", TsSoon)],
      [m EXCEPT !.timestamp_us = Val("int", TsLater)],
      [m EXCEPT !.timestamp_us = Val("int", -1000)],
      [m EXCEPT !.timestamp_us = Val("str", 0)] }

Malformed(m) ==
    { [m EXCEPT !.form = "not_utf8"], [m EXCEPT !.form = "bad_json"],
      [m EXCEPT !.form = "non_dict"] }

\* every message the broker may deliver
Messages ==
    {Encrypted(k, p) : k \in KeyValues, p \in Payloads}
    \cup BrokenCrypto(Encrypted(1, JList(HeartRateSpo2, 1)))
    \cup {[Encrypted(1, JList(HeartRateSpo2, 1)) EXCEPT !.device_id = d] :
            d \in {Val("absent", <<>>), Val("str", OldAlias(Device17))}}
    \cup {[Encrypted(1, JList(HeartRateSpo2, 1)) EXCEPT !.timestamp_us = Val("int", TsSoon)]}
    \cup {Plain(Val("dict", d)) : d \in {HeartRate, HeartRateSpo2, Scored}}
    \cup {Plain(Val("absent", EmptyDict)), Plain(Val("list", EmptyDict)),
          Plain(Val("num", EmptyDict))}
    \cup OtherRouting(Plain(Val("dict", Scored)))
    \cup OtherTimestamp(Plain(Val("dict", Scored)))
    \cup Malformed(Plain(Val("dict", HeartRateSpo2)))

(***************************************************************************)
(* Specifications                                                          *)
(***************************************************************************)
\* the key files a backend can be started on: written by a KeyManager that
\* provisioned, revoked or rotated device 1_7
InitialStores ==
    LET provisioned == provision_device(EmptyDict, Device17, 1).keys
    IN  {EmptyDict, provisioned, revoke_device(provisioned, Device17).keys,
         rotate_key(provisioned, Device17, 2).keys}

NoCall == [op |-> "init", id |-> <<>>, ret |-> 0, exc |-> "none", gen |-> FALSE,
           pre |-> NoRecord]

NoMessage ==
    [m |-> Plain(Val("absent", EmptyDict)), exc |-> "none", escaped |-> "none",
     reason |-> "none", calls |-> {}, dispatched |-> FALSE, prev_exc |-> "none",
     pre |-> [rec |-> NoRecord,
              sec |-> [encrypted_messages |-> 0, plain_messages |-> 0,
                       decryption_success |-> EmptyDict, decryption_failure |-> EmptyDict],
              store |-> EmptyDict]]

\* the key file a KeyManager with these records leaves behind: none was
\* written while the dict is empty
FileOf(ks) == IF ks = EmptyDict THEN "absent" ELSE "complete"

\* _load_keys: {} when the file does not exist or json.load raises
LoadKeys(state, content) == IF state = "complete" THEN content ELSE EmptyDict

NoDiskEvent == [op |-> "init", outcome |-> "none", saving |-> FALSE, calls |-> 0,
                pre_loaded |-> EmptyDict]

\* the threads that share one KeyManager (the simulator's worker pool)
Threads == {"t1", "t2"}

\* a thread outside the KeyManager: pc "idle" before its call, "done" after it.
\* unseen: the device_id was not in keys when the call began
ThreadLocals(pc, op, id, unseen, new_key, ret, exc) ==
    [pc |-> pc, op |-> op, id |-> id, unseen |-> unseen, new_key |-> new_key,
     ret |-> ret, exc |-> exc]

IdleThreads == [t \in Threads |-> ThreadLocals("idle", "none", <<>>, FALSE, 0, 0, "none")]

\* no AsconCrypto object has been built and nothing has been encoded
NoCodec ==
    [phase |-> "unused", key_hex |-> HexKey(0, 0, FALSE), nonce_in |-> NoneNonce,
     payload |-> NoPayload, init_exc |-> "none", key |-> 0,
     enc |-> [exc |-> "none", ciphertext |-> NoCiphertextBytes, nonce |-> NoneNonce],
     wire |-> [ciphertext |-> NoCiphertextBytes, nonce |-> NoneNonce],
     recv_key |-> 0, dec |-> [exc |-> "none", payload |-> NoPayload]]

NoB64 == [phase |-> "unused", ciphertext |-> <<>>, nonce |-> <<>>,
          encoded |-> [ciphertext |-> <<>>, nonce |-> <<>>],
          decoded |-> [exc |-> "none", ciphertext |-> <<>>, nonce |-> <<>>]]

CodecIdle == codec = NoCodec /\ b64 = NoB64

\* the backend process before __main__ has run
NoHealth == [asked |-> FALSE, status |-> "none", mqtt_connected |-> FALSE, subscriber |-> "none"]

NoSub ==
    [main |-> "init", pc |-> "not_started", use_tls |-> TRUE, tls_failed |-> FALSE,
     mqtt_connected |-> FALSE, subscribed |-> FALSE, queue |-> <<>>, published |-> 0,
     m |-> Plain(Val("absent", EmptyDict)), ml |-> "none", db |-> "none", saved |-> FALSE,
     health |-> NoHealth, killed_in |-> "none"]

\* the sink before any request; both services read DB_ENCRYPTION_KEY
NoSink == [db_key_env |-> "set", log |-> <<>>]

\* the threads that can be inside process_patient_data: the MQTT callback
\* thread and a Flask request thread of /track
Racers == {"mqtt", "http"}

IdleRacers == [t \in Racers |-> [pc |-> "idle", reading |-> EmptyDict, tmp |-> <<>>, calls |-> 0]]

\* what the simulator has observed of a publish_encrypted_vitals call; none yet
NoSimPublish ==
    [called |-> FALSE, device |-> <<>>, pre |-> NoRecord, attempted |-> FALSE,
     lookup |-> "not_called", init |-> "not_called", encrypt |-> "not_called",
     exc |-> "none", key |-> 0,
     enc |-> [exc |-> "none", ciphertext |-> NoCiphertextBytes, nonce |-> NoneNonce],
     handed |-> FALSE, envelope |-> Plain(Val("absent", EmptyDict)), ret |-> FALSE]

\* the simulator process after its module-level statements (lines 21-65)
NoSim == [env |-> "ok", keys |-> EmptyDict, mqtt_connected |-> FALSE, publishes |-> 0,
          last |-> NoSimPublish]

\* simulate_traffic before it is called
NoPool == [pc |-> "not_started", sheet_data |-> <<>>, row_index |-> 0, mqtt |-> "none",
           workers |-> <<>>, submitted |-> <<>>, started |-> <<>>, finished |-> <<>>,
           disconnected |-> FALSE]

\* the module-level state of app_encrypted.py before any message
\* the backend before any message, the simulator aside
BackendIdle ==
    /\ patient_data_store = EmptyDict
    /\ gauges = EmptyDict
    /\ security_metrics = [encrypted_messages |-> 0, plain_messages |-> 0,
                           decryption_success |-> EmptyDict, decryption_failure |-> EmptyDict]
    /\ latency_metrics = [mqtt_receive |-> {}, decryption |-> {}, processing |-> {},
                          end_to_end |-> {}]
    /\ current_latency = EmptyDict
    /\ subscriber_running = TRUE
    /\ handled = 0
    /\ last = NoMessage
    /\ threads = IdleThreads
    /\ process_up = TRUE
    /\ disk_last = NoDiskEvent
    /\ posted = 0
    /\ dispatch_log = EmptyDict
    /\ sub = NoSub
    /\ sink = NoSink
    /\ racers = IdleRacers

BackendInit ==
    /\ BackendIdle
    /\ sim = NoSim
    /\ pool = NoPool

KMInit ==
    /\ keys = EmptyDict
    /\ key_file = EmptyDict
    /\ file_state = "absent"
    /\ km_last = NoCall
    /\ crypto_env = "ok"
    /\ BackendInit
    /\ CodecIdle

KMNext == Provision \/ GetKey \/ Revoke \/ Rotate

SpecKM == KMInit /\ [][KMNext]_vars

(***************************************************************************)
(* Two threads in one KeyManager.  The methods take no lock, and print,    *)
(* os.urandom and file I/O let the interpreter switch threads, so each     *)
(* statement is a step of its own.                                         *)
(***************************************************************************)
ThreadStep(t, locals) ==
    /\ threads' = [threads EXCEPT ![t] = locals]
    /\ UNCHANGED <<km_last, pipe_vars, process_up, disk_last, codec_vars, track_vars, ext_vars>>

\* a thread enters get_device_key or provision_device
ThreadCall(t) ==
    /\ threads[t].pc = "idle"
    /\ \E op \in {"get_device_key", "provision_device"}, id \in DeviceIds :
           ThreadStep(t, [threads[t] EXCEPT
                             !.pc = IF op = "get_device_key" THEN "get_check" ELSE "prov_check",
                             !.op = op, !.id = id, !.unseen = id \notin DOMAIN keys])
    /\ UNCHANGED <<keys, key_file, file_state>>

\* get_device_key line 175: `if device_id not in self.keys`
GetCheck(t) ==
    /\ threads[t].pc = "get_check"
    /\ ThreadStep(t, [threads[t] EXCEPT
                         !.pc = IF threads[t].id \notin DOMAIN keys
                                THEN "prov_check" ELSE "get_info"])
    /\ UNCHANGED <<keys, key_file, file_state>>

\* get_device_key lines 179-184: the status test and the return
GetInfo(t) ==
    /\ threads[t].pc = "get_info"
    /\ LET device_info == keys[threads[t].id]
       IN  IF device_info.status # "active"
           THEN ThreadStep(t, [threads[t] EXCEPT !.pc = "done", !.exc = "ValueError"])
           ELSE ThreadStep(t, [threads[t] EXCEPT !.pc = "done", !.ret = device_info.key])
    /\ UNCHANGED <<keys, key_file, file_state>>

\* provision_device lines 146-148: `if device_id in self.keys`
ProvCheck(t) ==
    /\ threads[t].pc = "prov_check"
    /\ IF threads[t].id \in DOMAIN keys
       THEN ThreadStep(t, [threads[t] EXCEPT !.pc = "done", !.ret = keys[threads[t].id].key])
       ELSE ThreadStep(t, [threads[t] EXCEPT !.pc = "prov_generate"])
    /\ UNCHANGED <<keys, key_file, file_state>>

\* provision_device line 151: new_key = os.urandom(16).hex()
ProvGenerate(t) ==
    /\ threads[t].pc = "prov_generate"
    /\ \E rnd \in KeyValues :
           ThreadStep(t, [threads[t] EXCEPT !.pc = "prov_store", !.new_key = rnd])
    /\ UNCHANGED <<keys, key_file, file_state>>

\* provision_device lines 153-157: self.keys[device_id] = {...}
ProvStore(t) ==
    /\ threads[t].pc = "prov_store"
    /\ keys' = DictSet(keys, threads[t].id,
                       KeyRecord(threads[t].new_key, "active", {"created_at"}))
    /\ ThreadStep(t, [threads[t] EXCEPT !.pc = "prov_save"])
    /\ UNCHANGED <<key_file, file_state>>

\* provision_device lines 159-161: self._save_keys() and return new_key
ProvSave(t) ==
    /\ threads[t].pc = "prov_save"
    /\ key_file' = keys
    /\ file_state' = "complete"
    /\ ThreadStep(t, [threads[t] EXCEPT !.pc = "done", !.ret = threads[t].new_key])
    /\ UNCHANGED keys

ThreadsInit ==
    /\ keys \in InitialStores
    /\ key_file = keys
    /\ file_state = FileOf(keys)
    /\ km_last = NoCall
    /\ crypto_env = "ok"
    /\ BackendInit
    /\ CodecIdle

ThreadsNext ==
    \E t \in Threads :
        \/ ThreadCall(t) \/ GetCheck(t) \/ GetInfo(t)
        \/ ProvCheck(t) \/ ProvGenerate(t) \/ ProvStore(t) \/ ProvSave(t)

SpecThreads == ThreadsInit /\ [][ThreadsNext]_vars

(***************************************************************************)
(* The key file across saves, I/O errors, crashes and restarts             *)
(***************************************************************************)
\* how one run of _save_keys can end.  It returns after writing the file
\* ("saved"), after open() raised ("open_failed": the file is untouched) or
\* after json.dump raised part-way ("write_failed"); both exceptions are
\* caught and printed.  The process can also die after open(..., 'w') has
\* truncated the file ("crash_truncated") or after the dump ("crash_written")
SaveOutcomes == {"saved", "open_failed", "write_failed", "crash_truncated", "crash_written"}

CrashOutcomes == {"crash_truncated", "crash_written"}

\* the file after a run of _save_keys on the dict ks
FileAfterSave(ks, outcome) ==
    CASE outcome \in {"saved", "crash_written"} -> [state |-> "complete", content |-> ks]
      [] outcome \in {"write_failed", "crash_truncated"} ->
             [state |-> "partial", content |-> EmptyDict]
      [] OTHER -> [state |-> file_state, content |-> key_file]

\* a provision_device, revoke_device or rotate_key call with its save
DiskCall ==
    /\ process_up
    /\ disk_last.calls < MaxDiskCalls
    /\ \E op \in {"provision", "revoke", "rotate"}, id \in DeviceIds, rnd \in KeyValues :
         \E r \in {CASE op = "provision" -> provision_device(keys, id, rnd)
                     [] op = "revoke" -> revoke_device(keys, id)
                     [] OTHER -> rotate_key(keys, id, rnd)} :
           \E outcome \in (IF r.saved THEN SaveOutcomes ELSE {"none"}) :
             \E f \in {FileAfterSave(r.keys, outcome)} :
               /\ keys' = r.keys
               /\ key_file' = f.content
               /\ file_state' = f.state
               /\ process_up' = (outcome \notin CrashOutcomes)
               /\ disk_last' = [op |-> op, outcome |-> outcome, saving |-> r.saved,
                                calls |-> disk_last.calls + 1,
                                pre_loaded |-> LoadKeys(file_state, key_file)]
    /\ UNCHANGED <<km_last, pipe_vars, thread_vars, codec_vars, track_vars, ext_vars>>

\* the process is started again: KeyManager.__init__ loads the key file
Restart ==
    /\ keys' = LoadKeys(file_state, key_file)
    /\ process_up' = TRUE
    /\ disk_last' = [disk_last EXCEPT !.op = "restart", !.outcome = "none", !.saving = FALSE,
                                      !.pre_loaded = LoadKeys(file_state, key_file)]
    /\ UNCHANGED <<key_file, file_state, km_last, pipe_vars, thread_vars, codec_vars,
                   track_vars, ext_vars>>

\* the process starts on no key file, on one a KeyManager wrote, or on a
\* file that is not valid JSON
DiskInit ==
    /\ file_state \in {"absent", "complete", "partial"}
    /\ key_file \in (IF file_state = "complete" THEN InitialStores \ {EmptyDict}
                     ELSE {EmptyDict})
    /\ keys = LoadKeys(file_state, key_file)
    /\ km_last = NoCall
    /\ crypto_env = "ok"
    /\ BackendInit
    /\ CodecIdle

DiskNext == DiskCall \/ Restart

SpecDisk == DiskInit /\ [][DiskNext]_vars

(***************************************************************************)
(* One use of the codec: AsconCrypto(key_hex), encrypt, the ciphertext on  *)
(* its way to the receiver, decrypt                                        *)
(***************************************************************************)
\* key_hex strings: the 16-byte keys, keys of 15, 17 and 0 bytes, and text
\* that is no hexadecimal
CodecKeys ==
    {HexKey(k, KeyLen, TRUE) : k \in KeyValues}
    \cup {HexKey(1, 15, TRUE), HexKey(1, 17, TRUE), HexKey(1, 0, TRUE), HexKey(1, KeyLen, FALSE)}

\* nonces a caller passes: none, or one of 15, 16, 17 bytes
CodecNonces == {NoneNonce, Nonce(15, 1), Nonce(NonceLen, 1), Nonce(17, 1)}

CodecStep(next) ==
    /\ codec' = next
    /\ UNCHANGED <<km_vars, file_state, pipe_vars, thread_vars, process_up, disk_last, b64,
                   track_vars, ext_vars>>

\* crypto = AsconCrypto(key_hex)
CodecConstruct ==
    /\ codec.phase = "input"
    /\ \E obj \in {AsconCrypto_init(codec.key_hex, crypto_env)} :
           CodecStep([codec EXCEPT !.phase = "constructed", !.init_exc = obj.exc,
                                   !.key = obj.key])

\* ciphertext, nonce = crypto.encrypt(payload, nonce)
CodecEncrypt ==
    /\ codec.phase = "constructed"
    /\ codec.init_exc = "none"
    /\ \E rnd \in KeyValues :
         \E enc \in {AsconCrypto_encrypt(codec.key, codec.payload, codec.nonce_in, rnd)} :
           CodecStep([codec EXCEPT !.phase = "encrypted", !.enc = enc])

\* the ciphertext and nonce reach the receiver untouched, with a bit of the
\* ciphertext or its tag flipped, or with another nonce
CodecTransmit ==
    /\ codec.phase = "encrypted"
    /\ codec.enc.exc = "none"
    /\ \E wire \in {[ciphertext |-> codec.enc.ciphertext, nonce |-> codec.enc.nonce],
                    [ciphertext |-> [codec.enc.ciphertext EXCEPT !.tampered = TRUE],
                     nonce |-> codec.enc.nonce],
                    [ciphertext |-> codec.enc.ciphertext, nonce |-> Nonce(15, 1)],
                    [ciphertext |-> codec.enc.ciphertext, nonce |-> Nonce(17, 1)],
                    [ciphertext |-> codec.enc.ciphertext, nonce |-> Nonce(NonceLen, 0)]} :
           CodecStep([codec EXCEPT !.phase = "received", !.wire = wire])

\* AsconCrypto(receiver's key).decrypt(ciphertext, nonce)
CodecDecrypt ==
    /\ codec.phase = "received"
    /\ \E k \in KeyValues :
         \E dec \in {AsconCrypto_decrypt(k, codec.wire.ciphertext, codec.wire.nonce)} :
           CodecStep([codec EXCEPT !.phase = "decrypted", !.recv_key = k, !.dec = dec])

CodecInit ==
    /\ keys = EmptyDict
    /\ key_file = EmptyDict
    /\ file_state = "absent"
    /\ km_last = NoCall
    /\ crypto_env \in {"ok", "no_ascon"}
    /\ BackendInit
    /\ b64 = NoB64
    /\ \E key_hex \in CodecKeys, nonce \in CodecNonces, payload \in Payloads :
           codec = [NoCodec EXCEPT !.phase = "input", !.key_hex = key_hex,
                                   !.nonce_in = nonce, !.payload = payload]

CodecNext == CodecConstruct \/ CodecEncrypt \/ CodecTransmit \/ CodecDecrypt

SpecCodec == CodecInit /\ [][CodecNext]_vars

(***************************************************************************)
(* One use of encode_payload and decode_payload                            *)
(***************************************************************************)
ByteValues == {0, 77, 255}

RECURSIVE BytesOfLen(_)
BytesOfLen(n) ==
    IF n = 0 THEN {<<>>}
    ELSE {Append(bytes, b) : bytes \in BytesOfLen(n - 1), b \in ByteValues}

ByteStrings == UNION {BytesOfLen(n) : n \in 0..MaxBytes}

Base64Step(next) ==
    /\ b64' = next
    /\ UNCHANGED <<km_vars, file_state, pipe_vars, thread_vars, process_up, disk_last, codec,
                   track_vars, ext_vars>>

\* encoded = encode_payload(ciphertext, nonce)
Encode ==
    /\ b64.phase = "input"
    /\ Base64Step([b64 EXCEPT !.phase = "encoded",
                              !.encoded = encode_payload(b64.ciphertext, b64.nonce)])

\* decoded_ct, decoded_nonce = decode_payload(encoded)
Decode ==
    /\ b64.phase = "encoded"
    /\ Base64Step([b64 EXCEPT !.phase = "decoded", !.decoded = decode_payload(b64.encoded)])

Base64Init ==
    /\ keys = EmptyDict
    /\ key_file = EmptyDict
    /\ file_state = "absent"
    /\ km_last = NoCall
    /\ crypto_env = "ok"
    /\ BackendInit
    /\ codec = NoCodec
    /\ \E ciphertext \in ByteStrings, nonce \in ByteStrings :
           b64 = [NoB64 EXCEPT !.phase = "input", !.ciphertext = ciphertext, !.nonce = nonce]

Base64Next == Encode \/ Decode

SpecBase64 == Base64Init /\ [][Base64Next]_vars

(***************************************************************************)
(* The /track endpoint: readings posted over HTTP go straight to           *)
(* process_patient_data                                                    *)
(***************************************************************************)
TrackPatients == {"7", "8"}

\* the JSON body of a request: the n-th reading of patient p, told apart by
\* its heart_rate
TrackData(n, p) ==
    WithMetadata([x \in {"heart_rate"} |-> n], "1", <<"2">>, <<"2">>, p)

\* track_traffic
Track ==
    /\ posted < MaxPosts
    /\ \E p \in TrackPatients :
         LET sent == {patient_key \in DOMAIN dispatch_log : patient_key[4] = p}
             n == IF sent = {} THEN 0 ELSE Len(dispatch_log[CHOOSE patient_key \in sent : TRUE])
             data == TrackData(n + 1, p)
             patient_key == <<data["hospital"], data["dept"], data["ward"], data["patient"]>>
         IN  \E st \in {process_patient_data(PipeState, data, data["hospital"], data["dept"],
                                             data["ward"], data["patient"])} :
               /\ patient_data_store' = st.store
               /\ gauges' = st.gauges
               /\ posted' = posted + 1
               /\ dispatch_log' =
                      DictSet(dispatch_log, patient_key,
                              Append(IF patient_key \in DOMAIN dispatch_log
                                     THEN dispatch_log[patient_key] ELSE <<>>, data))
    /\ UNCHANGED <<km_vars, file_state, crypto_env, security_metrics, latency_metrics,
                   current_latency, subscriber_running, handled, last, thread_vars,
                   process_up, disk_last, codec_vars, ext_vars>>

TrackInit ==
    /\ keys = EmptyDict
    /\ key_file = EmptyDict
    /\ file_state = "absent"
    /\ km_last = NoCall
    /\ crypto_env = "ok"
    /\ BackendInit
    /\ CodecIdle

TrackNext == Track

SpecTrack == TrackInit /\ [][TrackNext]_vars

\* the device_id of an envelope as on_mqtt_message reads it
DeviceOf(m) ==
    DevKey(IF m.device_id.t = "absent" THEN Val("str", <<"unknown">>) ELSE m.device_id)

\* os.urandom is reached only through provision_device on an unseen device_id
KeyDraws(m) == IF DeviceOf(m) \in DOMAIN keys THEN {1} ELSE KeyValues

\* the ways one call of the handler can end: the key drawn, the scorer's reply
Outcomes(m) ==
    UNION { UNION { IF "call_ml_service" \in r.calls
                    THEN {r, on_mqtt_message(PipeState, m, rnd, "timeout")}
                    ELSE {r}
                    : r \in {on_mqtt_message(PipeState, m, rnd, "ok")} }
            : rnd \in KeyDraws(m) }

\* the broker hands one message to on_mqtt_message; an exception that leaves
\* the callback ends loop_forever.  `last` records the call: the message, how
\* the handler ended, how the call before it ended, and what it started from
Deliver ==
    /\ subscriber_running
    /\ handled < MaxMessages
    /\ \E m \in Messages : \E r \in Outcomes(m) :
             /\ keys' = r.st.keys
             /\ key_file' = r.st.key_file
             /\ patient_data_store' = r.st.store
             /\ gauges' = r.st.gauges
             /\ security_metrics' = r.st.sec
             /\ latency_metrics' = r.st.hist
             /\ current_latency' = r.st.cur
             /\ subscriber_running' = (r.escaped = "none")
             /\ handled' = handled + 1
             /\ last' = [m |-> m, exc |-> r.exc, escaped |-> r.escaped, reason |-> r.reason,
                         calls |-> r.calls, dispatched |-> r.dispatched,
                         prev_exc |-> last.exc,
                         pre |-> [rec |-> RecordOf(keys, DeviceOf(m)),
                                  sec |-> security_metrics,
                                  store |-> patient_data_store]]
             /\ file_state' = (IF r.st.key_file # key_file THEN "complete" ELSE file_state)
             /\ UNCHANGED <<km_last, crypto_env, thread_vars, process_up, disk_last,
                            codec_vars, track_vars, ext_vars>>

Init ==
    /\ crypto_env \in {"ok", "no_ascon", "no_crypto_utils"}
    /\ keys \in (IF crypto_env = "no_crypto_utils" THEN {EmptyDict} ELSE InitialStores)
    /\ key_file = keys
    /\ file_state = FileOf(keys)
    /\ km_last = NoCall
    /\ BackendInit
    /\ CodecIdle

Next == Deliver

Spec == Init /\ [][Next]_vars

\* the readings a store holds for a patient
ReadingsOf(store, patient_key) ==
    IF patient_key \in DOMAIN store THEN store[patient_key] ELSE <<>>

(***************************************************************************)
(* The storage sink: save_vitals_to_database of the backend and the        *)
(* /api/vitals/save handler of the dashboard (routes/patients.py)          *)
(***************************************************************************)
\* DB_ENCRYPTION_KEY as each service reads it: the environment's value when
\* it is set, the service's own default otherwise
BackendDbKey(env) == IF env = "set" THEN "env" ELSE "dev-db-key-change-in-production"
SinkDbKey(env) == IF env = "set" THEN "env" ELSE "default-32-char-key-change-this!"

\* dict.get(field): the value, or None
Get(data, field) == IF field \in DOMAIN data THEN data[field] ELSE Val("none", 0)

\* lines 160-193: the request save_vitals_to_database posts.  The Fernet token
\* is ideal: it opens under the key it was made with; `timestamp` is the type
\* of vitals.get('timestamp', time.time())
SaveRequest(vitals, hospital, dept, ward, patient_id, env) ==
    LET token == [key |-> BackendDbKey(env),
                  timestamp |-> IF "timestamp" \in DOMAIN vitals THEN "str" ELSE "float"]
    IN  [path |-> <<"api", "vitals", "save">>,
         body |-> [f \in {"encrypted_data", "patient_id"} |->
                      IF f = "patient_id" THEN Val("str", patient_id)
                      ELSE Val("token", token)]]

\* the URL the handler is registered under: the patients blueprint has
\* url_prefix '/patients' (web_dashboard/app.py:66)
SinkPath == <<"patients", "api", "vitals", "save">>

\* the fields api_save_encrypted_vitals requires of a request body
SinkRequiredFields == {"encrypted_vitals", "patient_id"}

\* api_save_encrypted_vitals (patients.py:425-543): 400 without a body or a
\* required field; 500 when the token does not open under the sink's key or
\* the record's timestamp is no '%Y-%m-%d %H:%M:%S' string; else 200
api_save_encrypted_vitals(data, env) ==
    LET encrypted_vitals == Get(data, "encrypted_vitals")
        patient_id_str == Get(data, "patient_id")
    IN  IF DOMAIN data = {} THEN [status |-> 400, message |-> "No data provided"]
        ELSE IF encrypted_vitals.t = "none" \/ patient_id_str.t = "none"
        THEN [status |-> 400, message |-> "Missing required fields"]
        ELSE IF encrypted_vitals.v.key # SinkDbKey(env)
        THEN [status |-> 500, message |-> "Failed to save vitals"]
        ELSE IF encrypted_vitals.v.timestamp # "str"
        THEN [status |-> 500, message |-> "Failed to save vitals"]
        ELSE [status |-> 200, message |-> "Vital signs saved to database"]

\* the dashboard's answer to a request: Flask's 404 for an unrouted URL
SinkResponse(request, env) ==
    IF request.path # SinkPath THEN [status |-> 404, message |-> "Not Found"]
    ELSE api_save_encrypted_vitals(request.body, env)

\* what requests.post to the sink can give: an answer, no answer within
\* timeout=2, or no connection
DbOutcomes == {"delivered", "timeout", "refused"}

\* save_vitals_to_database (lines 153-206): True on a 200 answer, False on any
\* other answer and on every exception; nothing is raised
save_vitals_to_database(vitals, hospital, dept, ward, patient_id, env, net) ==
    LET request == SaveRequest(vitals, hospital, dept, ward, patient_id, env)
        response == SinkResponse(request, env)
    IN  [request |-> request, delivered |-> net = "delivered", response |-> response,
         ret |-> (net = "delivered" /\ response.status = 200)]

(***************************************************************************)
(* The backend process step by step: __main__ starts the subscriber        *)
(* thread and runs the Flask app; init_mqtt_subscriber connects and enters *)
(* loop_forever, which calls on_mqtt_message for one message at a time.    *)
(* The handler is split at the two HTTP calls it waits for.                *)
(***************************************************************************)
MaxPublished == 2

ScoreZero == [x \in {"heart_rate", "anomaly_score"} |-> IF x = "heart_rate" THEN 72 ELSE 0]

\* the messages devices publish here: plaintext readings without a score,
\* with a score, with a score of 0, and a payload that is no JSON
SubMessages ==
    {Plain(Val("dict", d)) : d \in {HeartRate, Scored, ScoreZero}}
    \cup {[Plain(Val("dict", Scored)) EXCEPT !.form = "bad_json"]}

SubStep(new) ==
    /\ sub' = new
    /\ UNCHANGED <<km_vars, file_state, pipe_vars, thread_vars, process_up, disk_last,
                   codec_vars, track_vars, sink, racers, sim, pool>>

\* module import and lines 592-593: USE_TLS and DB_ENCRYPTION_KEY are read
\* from the environment, the daemon thread is started
Boot ==
    /\ sub.main = "init"
    /\ \E tls \in BOOLEAN, env \in {"set", "unset"} :
          /\ sub' = [sub EXCEPT !.main = "thread_started", !.use_tls = tls,
                                !.pc = IF tls THEN "tls_connect" ELSE "plain_connect"]
          /\ sink' = [sink EXCEPT !.db_key_env = env]
    /\ UNCHANGED <<km_vars, file_state, pipe_vars, thread_vars, process_up, disk_last,
                   codec_vars, track_vars, racers, sim, pool>>

\* line 600: app.run serves HTTP from now on
AppRun ==
    /\ sub.main = "thread_started"
    /\ SubStep([sub EXCEPT !.main = "serving"])

\* lines 410-424: tls_set and connect on the TLS port; an exception is caught
\* and the handler goes on to the plain port
TlsConnect ==
    /\ sub.pc = "tls_connect"
    /\ \E ok \in BOOLEAN :
          SubStep(IF ok THEN [sub EXCEPT !.pc = "connack"]
                  ELSE [sub EXCEPT !.tls_failed = TRUE, !.pc = "plain_connect"])

\* lines 424 and 427: connect on the plain port; an exception here leaves the
\* outer try, whose except clause logs it (431-432) and the thread ends
PlainConnect ==
    /\ sub.pc = "plain_connect"
    /\ \E ok \in BOOLEAN :
          SubStep([sub EXCEPT !.pc = IF ok THEN "connack" ELSE "failed"])

\* on_mqtt_connect (lines 378-391), called from loop_forever with the
\* broker's return code: subscribes on 0
OnConnect ==
    /\ sub.pc = "connack"
    /\ \E rc \in {0, 5} :
          SubStep([sub EXCEPT !.mqtt_connected = (rc = 0), !.subscribed = (rc = 0),
                              !.pc = "loop"])

\* /health (lines 480-488), served by the Flask app
Health ==
    /\ sub.main = "serving"
    /\ SubStep([sub EXCEPT !.health = [asked |-> TRUE, status |-> "healthy",
                                       mqtt_connected |-> sub.mqtt_connected,
                                       subscriber |-> sub.pc]])

\* a device publishes; the broker forwards the message to the subscription
Publish ==
    /\ sub.subscribed
    /\ sub.published < MaxPublished
    /\ \E m \in SubMessages :
          SubStep([sub EXCEPT !.queue = Append(@, m), !.published = @ + 1])

\* the state on_mqtt_message leaves, and the observation of the call
ApplyOutcome(m, r) ==
    /\ keys' = r.st.keys
    /\ key_file' = r.st.key_file
    /\ patient_data_store' = r.st.store
    /\ gauges' = r.st.gauges
    /\ security_metrics' = r.st.sec
    /\ latency_metrics' = r.st.hist
    /\ current_latency' = r.st.cur
    /\ subscriber_running' = (r.escaped = "none")
    /\ handled' = handled + 1
    /\ last' = [m |-> m, exc |-> r.exc, escaped |-> r.escaped, reason |-> r.reason,
                calls |-> r.calls, dispatched |-> r.dispatched, prev_exc |-> last.exc,
                pre |-> [rec |-> RecordOf(keys, DeviceOf(m)), sec |-> security_metrics,
                         store |-> patient_data_store]]
    /\ UNCHANGED <<km_last, file_state, crypto_env, thread_vars, process_up, disk_last,
                   codec_vars, track_vars, racers, sim, pool>>

\* loop_forever takes the next message and calls on_mqtt_message on this
\* thread (lines 246-341): the handler either ends before the scoring stage,
\* or goes on to requests.post to the scorer (line 344) or, when the payload
\* carries a score, to the sink (line 349), and waits there
HandlerStart ==
    /\ sub.pc = "loop"
    /\ sub.queue # <<>>
    /\ \E m \in {Head(sub.queue)} : \E r \in {on_mqtt_message(PipeState, m, 1, "ok")} :
          IF r.dispatched
          THEN /\ sub' = [sub EXCEPT !.queue = Tail(@), !.m = m, !.ml = "none", !.db = "none",
                                     !.saved = FALSE,
                                     !.pc = IF "call_ml_service" \in r.calls
                                            THEN "in_ml" ELSE "in_db"]
               /\ UNCHANGED <<km_vars, file_state, pipe_vars, thread_vars, process_up,
                              disk_last, codec_vars, track_vars, sink, racers, sim, pool>>
          ELSE /\ sub' = [sub EXCEPT !.queue = Tail(@), !.m = m, !.ml = "none", !.db = "none",
                                     !.saved = FALSE]
               /\ ApplyOutcome(m, r)
               /\ UNCHANGED sink

\* requests.post to the scorer returns or raises (lines 135-150); the handler
\* goes on to save_vitals_to_database
MLReturn ==
    /\ sub.pc = "in_ml"
    /\ \E reply \in MLReplies : SubStep([sub EXCEPT !.ml = reply, !.pc = "in_db"])

\* requests.post to the sink returns or raises (lines 195-206); the rest of
\* the handler (lines 351-368) runs and on_mqtt_message returns.
\* save_vitals_to_database is given the vitals and routing that
\* process_patient_data then stores
DBReturn ==
    /\ sub.pc = "in_db"
    /\ \E net \in DbOutcomes :
       \E r \in {on_mqtt_message(PipeState, sub.m, 1, IF sub.ml = "none" THEN "ok" ELSE sub.ml)} :
       \E patient_key \in {k \in DOMAIN r.st.store :
                             Len(ReadingsOf(patient_data_store, k)) < Len(r.st.store[k])} :
       \E sv \in {save_vitals_to_database(r.st.store[patient_key][Len(r.st.store[patient_key])],
                                          patient_key[1], patient_key[2], patient_key[3],
                                          patient_key[4], sink.db_key_env, net)} :
          /\ sink' = [sink EXCEPT !.log = IF sv.delivered
                                          THEN Append(@, [request |-> sv.request,
                                                          response |-> sv.response])
                                          ELSE @]
          /\ sub' = [sub EXCEPT !.db = net, !.saved = sv.ret,
                                !.pc = IF r.escaped = "none" THEN "loop" ELSE "failed"]
          /\ ApplyOutcome(sub.m, r)

\* the process is told to stop (SIGTERM, or Ctrl-C inside app.run).  No
\* signal handler is installed, nothing calls loop_stop or disconnect, and the
\* subscriber is a daemon thread (line 592): the process ends with the thread
\* wherever it is, and the broker connection goes with the process
Shutdown ==
    /\ sub.main \in {"thread_started", "serving"}
    /\ SubStep([sub EXCEPT !.main = "exited", !.killed_in = sub.pc, !.pc = "killed",
                           !.mqtt_connected = FALSE, !.subscribed = FALSE])

SubInit ==
    /\ keys = EmptyDict
    /\ key_file = EmptyDict
    /\ file_state = "absent"
    /\ km_last = NoCall
    /\ crypto_env = "ok"
    /\ BackendInit
    /\ CodecIdle

SubNext ==
    \/ Boot \/ AppRun \/ TlsConnect \/ PlainConnect \/ OnConnect \/ Health
    \/ Publish \/ HandlerStart \/ MLReturn \/ DBReturn \/ Shutdown

SpecSub == SubInit /\ [][SubNext]_vars

(***************************************************************************)
(* Two threads inside process_patient_data for one patient key: the MQTT   *)
(* callback thread and a Flask request thread of /track.  The function     *)
(* takes no lock; a thread switch can fall between any two of its          *)
(* statements and between the slice and the assignment of line 243.        *)
(***************************************************************************)
MaxRaceCalls == 2

RaceKey == <<"1", <<"2">>, <<"2">>, "7">>

\* the number of readings the key holds when the two threads arrive
RaceStartLens == {0, StoreCap - 1, StoreCap}

\* the reading thread t dispatches in its call number c
RaceReading(t, c) == TrackData((IF t = "mqtt" THEN 200 ELSE 300) + c, "7")

RaceStep(t, new) ==
    /\ racers' = [racers EXCEPT ![t] = new]
    /\ UNCHANGED <<km_vars, file_state, crypto_env, security_metrics, latency_metrics,
                   current_latency, subscriber_running, handled, last, thread_vars,
                   process_up, disk_last, codec_vars, posted, sub, sink, sim, pool>>

\* lines 220-228: the thread enters with its reading and sets the gauges
RaceEnter(t) ==
    /\ racers[t].pc = "idle"
    /\ racers[t].calls < MaxRaceCalls
    /\ \E reading \in {RaceReading(t, racers[t].calls + 1)} :
          /\ gauges' = SetGauges(gauges, GaugeFields, reading, RaceKey)
          /\ RaceStep(t, [racers[t] EXCEPT !.pc = "append", !.reading = reading])
    /\ UNCHANGED <<patient_data_store, dispatch_log>>

\* line 239: patient_data_store[patient_key].append(vitals)
RaceAppend(t) ==
    /\ racers[t].pc = "append"
    /\ patient_data_store' =
           DictSet(patient_data_store, RaceKey,
                   Append(ReadingsOf(patient_data_store, RaceKey), racers[t].reading))
    /\ dispatch_log' =
           DictSet(dispatch_log, RaceKey,
                   Append(ReadingsOf(dispatch_log, RaceKey), racers[t].reading))
    /\ RaceStep(t, [racers[t] EXCEPT !.pc = "check"])
    /\ UNCHANGED gauges

\* line 242: if len(patient_data_store[patient_key]) > 100
RaceCheck(t) ==
    /\ racers[t].pc = "check"
    /\ RaceStep(t, IF Len(ReadingsOf(patient_data_store, RaceKey)) > StoreCap
                   THEN [racers[t] EXCEPT !.pc = "slice"]
                   ELSE [racers[t] EXCEPT !.pc = "idle", !.calls = @ + 1])
    /\ UNCHANGED <<patient_data_store, gauges, dispatch_log>>

\* line 243, right-hand side: patient_data_store[patient_key][-100:]
RaceSlice(t) ==
    /\ racers[t].pc = "slice"
    /\ RaceStep(t, [racers[t] EXCEPT !.pc = "assign",
                                     !.tmp = LastN(ReadingsOf(patient_data_store, RaceKey),
                                                   StoreCap)])
    /\ UNCHANGED <<patient_data_store, gauges, dispatch_log>>

\* line 243, the assignment: patient_data_store[patient_key] = <the slice>
RaceAssign(t) ==
    /\ racers[t].pc = "assign"
    /\ patient_data_store' = DictSet(patient_data_store, RaceKey, racers[t].tmp)
    /\ RaceStep(t, [racers[t] EXCEPT !.pc = "idle", !.tmp = <<>>, !.calls = @ + 1])
    /\ UNCHANGED <<gauges, dispatch_log>>

\* the backend after n earlier readings of the patient were dispatched
RaceInit ==
    /\ keys = EmptyDict
    /\ key_file = EmptyDict
    /\ file_state = "absent"
    /\ km_last = NoCall
    /\ crypto_env = "ok"
    /\ \E n \in RaceStartLens :
          /\ patient_data_store =
                 (IF n = 0 THEN EmptyDict
                  ELSE [k \in {RaceKey} |-> [i \in 1..n |-> TrackData(i, "7")]])
          /\ dispatch_log = patient_data_store
          /\ gauges = (IF n = 0 THEN EmptyDict
                       ELSE SetGauges(EmptyDict, GaugeFields, TrackData(n, "7"), RaceKey))
          /\ posted = n
    /\ security_metrics = [encrypted_messages |-> 0, plain_messages |-> 0,
                           decryption_success |-> EmptyDict, decryption_failure |-> EmptyDict]
    /\ latency_metrics = [mqtt_receive |-> {}, decryption |-> {}, processing |-> {},
                          end_to_end |-> {}]
    /\ current_latency = EmptyDict
    /\ subscriber_running = TRUE
    /\ handled = 0
    /\ last = NoMessage
    /\ threads = IdleThreads
    /\ process_up = TRUE
    /\ disk_last = NoDiskEvent
    /\ sub = NoSub
    /\ sink = NoSink
    /\ racers = IdleRacers
    /\ sim = NoSim
    /\ pool = NoPool
    /\ CodecIdle

RaceNext ==
    \E t \in Racers :
        \/ RaceEnter(t) \/ RaceAppend(t) \/ RaceCheck(t) \/ RaceSlice(t) \/ RaceAssign(t)

SpecRace == RaceInit /\ [][RaceNext]_vars

(***************************************************************************)
(* The patient simulator (send_data_encrypted.py): publish_encrypted_vitals *)
(* with the simulator's own KeyManager on /app/keys/device_keys.json, next *)
(* to the backend's KeyManager on /app/keys/backend_keys.json              *)
(***************************************************************************)
MaxSimPublishes == 2

\* the nonces os.urandom(16) can yield
NonceIds == KeyValues

\* a spreadsheet row after generate_updated_patient_data
PatientData(hospital, ward, patient) ==
    [hospital |-> hospital, ward |-> ward, patient |-> patient, heart_rate |-> 72, spo2 |-> 98]

SimPatients == {PatientData("1", <<"2">>, "7"), PatientData("1", <<"2">>, "8")}

\* device_id = f"{hospital}_{patient}"
SimDeviceId(patient_data) == <<patient_data.hospital, patient_data.patient>>

\* vitals_payload: the vitals of the row, without an anomaly_score
VitalsPayload(patient_data) ==
    [x \in {"heart_rate", "spo2"} |-> patient_data[x]]

\* AsconCrypto.encrypt returns the tuple (ciphertext, nonce)
EncryptReturns == 2

\* `ciphertext, nonce, encryption_time_ms = crypto.encrypt(...)`
EncryptTargets == 3

\* tuple unpacking: ValueError unless there are as many values as names
UnpackTuple(values, names) == IF values = names THEN "none" ELSE "ValueError"

\* the try body of publish_encrypted_vitals (lines 231-259): key lookup,
\* AsconCrypto(device_key), encrypt, unpacking; exc is what the except clause
\* caught, "none" when the body completed
SimEncryptStage(s, patient_data, rnd, nonce_id) ==
    LET got == get_device_key(s.keys, SimDeviceId(patient_data), rnd)
        crypto == AsconCrypto_init(HexKey(got.ret, KeyLen, TRUE), s.env)
        enc == AsconCrypto_encrypt(crypto.key, JDict(VitalsPayload(patient_data)),
                                   NoneNonce, nonce_id)
        reached_init == got.exc = "none"
        reached_encrypt == reached_init /\ crypto.exc = "none"
    IN  [keys |-> got.keys,
         lookup |-> got.exc,
         key |-> got.ret,
         init |-> IF reached_init THEN crypto.exc ELSE "not_called",
         encrypt |-> IF reached_encrypt THEN enc.exc ELSE "not_called",
         enc |-> IF reached_encrypt THEN enc ELSE NoSimPublish.enc,
         exc |-> CASE got.exc # "none" -> got.exc
                   [] crypto.exc # "none" -> crypto.exc
                   [] enc.exc # "none" -> enc.exc
                   [] OTHER -> UnpackTuple(EncryptReturns, EncryptTargets)]

\* MQTT_TOPIC_TEMPLATE.format(...): the '/'-separated segments
SimTopic(patient_data) ==
    <<"hospital", patient_data.hospital, "ward">> \o patient_data.ward
        \o <<"patient", patient_data.patient>>

\* the mqtt_payload of the encrypted branch (lines 246-256)
SimEncryptedEnvelope(patient_data, enc) ==
    [form |-> "dict", topic |-> SimTopic(patient_data),
     device_id |-> Val("str", SimDeviceId(patient_data)),
     hospital |-> Val("str", patient_data.hospital),
     ward |-> Val("str", patient_data.ward), encrypted |-> Val("bool", TRUE),
     timestamp_us |-> Val("int", TsPast),
     ciphertext |-> B64(enc.ciphertext), nonce |-> B64(enc.nonce),
     vitals |-> Val("absent", EmptyDict)]

\* the mqtt_payload of the except clause and of the else branch (lines 259-278)
SimPlainEnvelope(patient_data) ==
    [form |-> "dict", topic |-> SimTopic(patient_data),
     device_id |-> Val("str", SimDeviceId(patient_data)),
     hospital |-> Val("str", patient_data.hospital),
     ward |-> Val("str", patient_data.ward), encrypted |-> Val("bool", FALSE),
     timestamp_us |-> Val("absent", 0),
     ciphertext |-> NoCiphertext, nonce |-> NoNonce,
     vitals |-> Val("dict", VitalsPayload(patient_data))]

\* what mqtt_client.publish can do: rc success, another rc, or raise
PublishResults == {"success", "rc_error", "raised"}

\* publish_encrypted_vitals (lines 197-306): the simulator state it leaves,
\* with the observation of the call in `last`
publish_encrypted_vitals(s, patient_data, rnd, nonce_id, result) ==
    LET dev == SimDeviceId(patient_data)
        attempted == s.env # "no_crypto_utils"     \* CRYPTO_AVAILABLE and key_manager
        stage == SimEncryptStage(s, patient_data, rnd, nonce_id)
        envelope == IF attempted /\ stage.exc = "none"
                    THEN SimEncryptedEnvelope(patient_data, stage.enc)
                    ELSE SimPlainEnvelope(patient_data)
        seen == [called |-> TRUE, device |-> dev, pre |-> RecordOf(s.keys, dev)]
    IN  IF ~s.mqtt_connected
        THEN [s EXCEPT !.publishes = @ + 1,
                       !.last = seen @@ NoSimPublish]
        ELSE IF ~attempted
        THEN [s EXCEPT !.publishes = @ + 1,
                       !.last = seen @@ [handed |-> TRUE, envelope |-> envelope,
                                         ret |-> (result = "success")] @@ NoSimPublish]
        ELSE [s EXCEPT !.publishes = @ + 1,
                       !.keys = stage.keys,
                       !.last = seen @@ [attempted |-> TRUE, lookup |-> stage.lookup,
                                         init |-> stage.init, encrypt |-> stage.encrypt,
                                         exc |-> stage.exc, key |-> stage.key,
                                         enc |-> stage.enc, handed |-> TRUE,
                                         envelope |-> envelope,
                                         ret |-> (result = "success")]]

SimStep(new) ==
    /\ sim' = new
    /\ UNCHANGED <<km_vars, pipe_vars, thread_vars, disk_vars, codec_vars, track_vars,
                   sub, sink, racers, pool>>

\* a pool thread calls publish_encrypted_vitals for one patient
SimPublish ==
    /\ sim.publishes < MaxSimPublishes
    /\ \E patient_data \in SimPatients, rnd \in KeyValues, nonce_id \in NonceIds,
          result \in PublishResults :
          SimStep(publish_encrypted_vitals(sim, patient_data, rnd, nonce_id, result))

\* on_mqtt_connect (lines 66-77): rc 0 is success, 5 a refusal
SimOnConnect ==
    \E rc \in {0, 5} :
        /\ ~sim.mqtt_connected
        /\ SimStep([sim EXCEPT !.mqtt_connected = (rc = 0)])

\* on_mqtt_disconnect (lines 80-85)
SimOnDisconnect ==
    /\ sim.mqtt_connected
    /\ SimStep([sim EXCEPT !.mqtt_connected = FALSE])

\* both processes have started; each KeyManager has loaded its own file
SimInit ==
    /\ keys \in {EmptyDict, provision_device(EmptyDict, Device17, 1).keys}
    /\ key_file = keys
    /\ file_state = FileOf(keys)
    /\ km_last = NoCall
    /\ crypto_env = "ok"
    /\ BackendIdle
    /\ CodecIdle
    /\ pool = NoPool
    /\ \E env \in {"ok", "no_ascon", "no_crypto_utils"} :
       \E ks \in (IF env = "no_crypto_utils" THEN {EmptyDict} ELSE InitialStores) :
           sim = [NoSim EXCEPT !.env = env, !.keys = ks]

SimNext == SimPublish \/ SimOnConnect \/ SimOnDisconnect

SpecSim == SimInit /\ [][SimNext]_vars

(***************************************************************************)
(* simulate_traffic (send_data_encrypted.py): one batch per row index, each *)
(* batch on a ThreadPoolExecutor of its own.  Tasks are counted per batch: *)
(* submitted, started by a worker thread, finished.                        *)
(***************************************************************************)
MaxSheets == 17
MaxRows == 2

\* the cap in `max_workers = min(len(patient_tasks), 15)`
MaxWorkers == 15

\* sheet_data: per sheet the number of its rows
SheetShapes ==
    {[sheet \in 1..n |-> rows] : n \in {0, 1, MaxSheets}, rows \in 1..MaxRows}
        \cup {[sheet \in 1..MaxSheets |-> sheet % (MaxRows + 1)]}

\* the sheets that have a row at row_index (lines 356-361)
PatientTasks(sheet_data, row_index) ==
    {sheet \in DOMAIN sheet_data : row_index < sheet_data[sheet]}

\* mutant: one worker thread per task
max_workers_uncapped(n) == n

max_workers(n) == IF n < MaxWorkers THEN n ELSE MaxWorkers

\* what init_mqtt can do: connected, no CONNACK within the 5 s wait, or the
\* last connect call raised
InitMqttOutcomes == {"connected", "timeout", "raised"}

PoolStep(new) ==
    /\ pool' = new
    /\ UNCHANGED <<km_vars, pipe_vars, thread_vars, disk_vars, codec_vars, track_vars,
                   sub, sink, racers, sim>>

\* lines 310-334: read the sheets, return when there are none, init_mqtt
PoolStart ==
    /\ pool.pc = "not_started"
    /\ \E sheet_data \in SheetShapes, mqtt \in InitMqttOutcomes :
          LET none == [batch \in 1..MaxRows |-> 0]
          IN  PoolStep(
                IF DOMAIN sheet_data = {}
                THEN [pool EXCEPT !.pc = "returned"]
                ELSE IF mqtt = "raised"
                THEN [pool EXCEPT !.pc = "raised", !.sheet_data = sheet_data]
                ELSE [pool EXCEPT !.pc = "collect", !.sheet_data = sheet_data,
                                  !.mqtt = mqtt, !.workers = none, !.submitted = none,
                                  !.started = none, !.finished = none])

\* lines 352-379: collect the tasks of row_index; leave the loop when there
\* are none, else create the executor and submit them all
PoolCollect ==
    /\ pool.pc = "collect"
    /\ LET tasks == PatientTasks(pool.sheet_data, pool.row_index)
           batch == pool.row_index + 1
       IN  PoolStep(
             IF tasks = {}
             THEN [pool EXCEPT !.pc = "cleanup"]
             ELSE [pool EXCEPT !.pc = "running",
                               !.workers[batch] = max_workers(Cardinality(tasks)),
                               !.submitted[batch] = Cardinality(tasks)])

\* a worker thread of a batch's executor takes a submitted task
TaskStart ==
    \E batch \in DOMAIN pool.submitted :
        /\ pool.started[batch] < pool.submitted[batch]
        /\ pool.started[batch] - pool.finished[batch] < pool.workers[batch]
        /\ PoolStep([pool EXCEPT !.started[batch] = @ + 1])

\* process_patient returns (it catches every exception)
TaskFinish ==
    \E batch \in DOMAIN pool.submitted :
        /\ pool.finished[batch] < pool.started[batch]
        /\ PoolStep([pool EXCEPT !.finished[batch] = @ + 1])

\* lines 381-397: as_completed has yielded every future and the with block
\* has shut the executor down; sleep, then the next row_index
PoolJoin ==
    /\ pool.pc = "running"
    /\ pool.finished[pool.row_index + 1] = pool.submitted[pool.row_index + 1]
    /\ PoolStep([pool EXCEPT !.pc = "collect", !.row_index = @ + 1])

\* lines 399-403: loop_stop and disconnect
PoolCleanup ==
    /\ pool.pc = "cleanup"
    /\ PoolStep([pool EXCEPT !.pc = "done", !.mqtt = "disconnected",
                             !.disconnected = TRUE])

PoolInit == KMInit /\ BackendInit /\ CodecIdle

PoolNext ==
    PoolStart \/ PoolCollect \/ TaskStart \/ TaskFinish \/ PoolJoin \/ PoolCleanup

\* every thread that can run gets to run
SpecPool == PoolInit /\ [][PoolNext]_vars /\ WF_vars(PoolNext)

(***************************************************************************)
(* Claims about on_mqtt_message, checked under Spec                        *)
(***************************************************************************)
\* the routing fields of the last envelope have the types the handler's
\* string and number operations need
RoutingWellTyped ==
    /\ handled > 0
    /\ last.m.form = "dict"
    /\ last.m.device_id.t \in {"str", "absent"}
    /\ last.m.ward.t \in {"str", "absent"}
    /\ last.m.timestamp_us.t \in {"int", "absent"}

\* ciphertext and nonce of the last envelope are present and are base64 text
CryptoFieldsDecode ==
    /\ last.m.ciphertext.t = "str" /\ last.m.ciphertext.v.valid
    /\ last.m.nonce.t = "str" /\ last.m.nonce.v.valid

\* the last call appended to the rolling store a reading that carries the
\* values of `vitals` (the score field may be filled in by the scorer)
ReadingAppended(vitals) ==
    \E patient_key \in DOMAIN patient_data_store :
        LET readings == patient_data_store[patient_key]
            before == ReadingsOf(last.pre.store, patient_key)
            reading == readings[Len(readings)]
        IN  /\ Len(readings) = (IF Len(before) < StoreCap THEN Len(before) + 1 ELSE StoreCap)
            /\ \A f \in DOMAIN vitals \ {"anomaly_score"} :
                   f \in DOMAIN reading /\ reading[f] = vitals[f]

\* the case of C1: an encrypted envelope on a six-segment topic whose
\* ciphertext is a vitals dict encrypted under the device's active key
C1_Case ==
    /\ RoutingWellTyped /\ CryptoFieldsDecode
    /\ crypto_env = "ok"
    /\ last.m.encrypted = Val("bool", TRUE)
    /\ Len(last.m.topic) = 6
    /\ last.m.nonce.v.bytes.len = NonceLen
    /\ LET ct == last.m.ciphertext.v.bytes
       IN  /\ ct.p.kind = "object" /\ ~ct.tampered /\ ct.n = last.m.nonce.v.bytes
           /\ last.pre.rec.status = "active" /\ last.pre.rec.key = ct.k

\* C1: an envelope encrypted under the device's active key with a 16-byte
\* nonce, published on hospital/h/ward/w/patient/p, is decrypted and
\* dispatched: a reading with the decrypted values and metadata h, w, p is
\* appended to the store, every known vital field's gauge is set under a label
\* set containing patient p, and decryption_success grows by one for the device
C1_EncryptedDispatched ==
    C1_Case =>
        LET m == last.m
            d == m.ciphertext.v.bytes.p.members
            dev == DeviceOf(m)
            before == IF dev \in DOMAIN last.pre.sec.decryption_success
                      THEN last.pre.sec.decryption_success[dev] ELSE 0
        IN  /\ last.dispatched
            /\ ReadingAppended(d)
            /\ \E patient_key \in DOMAIN patient_data_store :
                   LET reading == patient_data_store[patient_key][Len(patient_data_store[patient_key])]
                   IN  /\ reading["hospital"] = m.topic[2]
                       /\ reading["ward"] = <<m.topic[4]>>
                       /\ reading["patient"] = m.topic[6]
            /\ \A f \in (DOMAIN d) \cap GaugeFields :
                   \E g \in DOMAIN gauges :
                       g[1] = f /\ g[2][4] = m.topic[6] /\ gauges[g] = d[f]
            /\ dev \in DOMAIN security_metrics.decryption_success
            /\ security_metrics.decryption_success[dev] = before + 1

\* C2: whatever the message is, on_mqtt_message returns without raising, so
\* the subscriber loop keeps running and goes on to the next message
C2_HandlerNeverRaises ==
    last.escaped = "none" /\ subscriber_running

\* a message whose try block raised was followed by one that was dispatched
C2_Witness ==
    /\ handled = 2
    /\ last.prev_exc \in {"TypeError", "AttributeError", "UnicodeDecodeError"}
    /\ last.dispatched
    /\ subscriber_running

\* the case of C3: a plaintext envelope that carries a vitals dict
C3_Case ==
    /\ RoutingWellTyped
    /\ last.m.encrypted.t = "absent" \/ last.m.encrypted = Val("bool", FALSE)
    /\ last.m.vitals.t = "dict"

\* C3: a plaintext envelope carrying vitals is processed without a call to the
\* key manager or to AsconCrypto, its reading is dispatched, plain_messages
\* grows by exactly one and encrypted_messages stays as it was
C3_PlainBypassesCrypto ==
    C3_Case =>
        /\ last.calls \cap {"decode_payload", "get_device_key", "AsconCrypto", "decrypt"} = {}
        /\ RecordOf(keys, DeviceOf(last.m)) = last.pre.rec
        /\ last.dispatched
        /\ ReadingAppended(last.m.vitals.v)
        /\ security_metrics.plain_messages = last.pre.sec.plain_messages + 1
        /\ security_metrics.encrypted_messages = last.pre.sec.encrypted_messages

\* a plaintext heart-rate reading arrived after an encrypted message was counted
C3_Witness ==
    /\ C3_Case
    /\ last.m.encrypted = Val("bool", FALSE)
    /\ last.m.vitals.v = HeartRate
    /\ last.dispatched
    /\ security_metrics.encrypted_messages = 1
    /\ security_metrics.plain_messages = 1

\* the case of C4: an encrypted envelope from an active device whose nonce
\* decodes to 15 bytes
C4_Case ==
    /\ RoutingWellTyped /\ CryptoFieldsDecode
    /\ crypto_env = "ok"
    /\ last.m.encrypted = Val("bool", TRUE)
    /\ last.m.nonce.v.bytes.len = 15
    /\ last.pre.rec.status = "active"

\* C4: an encrypted envelope whose nonce decodes to 15 bytes is rejected with
\* a reason of its own, distinct from the one counted for an authentication
\* failure, and the subscriber loop keeps running
C4_ShortNonceOwnReason ==
    C4_Case =>
        /\ ~last.dispatched
        /\ last.reason \notin {"none", "auth_failed"}
        /\ last.escaped = "none" /\ subscriber_running

(***************************************************************************)
(* Claims about the key store, checked under SpecKM                        *)
(***************************************************************************)
LastId == km_last.id
LastRecord == RecordOf(keys, LastId)

\* C5: get_key on a device whose record is Revoked fails with the
\* device-revoked error (the ValueError of get_device_key), generates no key,
\* and leaves the record as revoke left it: status Revoked, same key.
C5_RevokedGetKeyFails ==
    (km_last.op = "get_key" /\ km_last.pre.status = "revoked")
        => /\ km_last.exc = "ValueError"
           /\ ~km_last.gen
           /\ LastRecord = km_last.pre

C5_Witness ==
    /\ km_last.op = "get_key"
    /\ km_last.pre.status = "revoked"
    /\ km_last.exc = "ValueError"
    /\ LastRecord.status = "revoked"

\* C6: after provision(id) the store holds one Active record for id whose key
\* is the returned key, and a second provision(id) in that state returns the
\* same key and changes nothing in the key store.
C6_ProvisionIdempotent ==
    km_last.op = "provision"
        => /\ LastRecord.status = "active"
           /\ LastRecord.key = km_last.ret
           /\ \A rnd \in KeyValues :
                 LET again == provision_device(keys, LastId, rnd)
                 IN  again.ret = km_last.ret /\ again.keys = keys /\ ~again.saved

\* C7: provision(id) on a device whose record is Revoked installs a fresh
\* Active record (a newly generated key), so that a following get_key(id)
\* returns that key.
C7_ProvisionOverRevoked ==
    (km_last.op = "provision" /\ km_last.pre.status = "revoked")
        => /\ km_last.gen
           /\ LastRecord.status = "active"
           /\ LastRecord.key = km_last.ret
           /\ \A rnd \in KeyValues :
                 LET got == get_device_key(keys, LastId, rnd)
                 IN  got.exc = "none" /\ got.ret = km_last.ret

\* C8: after rotate(id) on a provisioned device, get_key(id) returns the key
\* rotate returned, and the key that was current before the call is the key
\* of the archive record id + "_old".
C8_RotateInstallsAndArchives ==
    (km_last.op = "rotate" /\ km_last.pre.status # "absent")
        => /\ km_last.gen
           /\ \A rnd \in KeyValues :
                 LET got == get_device_key(keys, LastId, rnd)
                 IN  got.exc = "none" /\ got.ret = km_last.ret /\ got.keys = keys
           /\ OldAlias(LastId) \in DOMAIN keys
           /\ keys[OldAlias(LastId)].key = km_last.pre.key
           /\ keys[OldAlias(LastId)].status = "none"

C8_Witness ==
    /\ km_last.op = "rotate"
    /\ km_last.pre.status = "active"
    /\ km_last.ret # km_last.pre.key
    /\ LastRecord.key = km_last.ret
    /\ keys[OldAlias(LastId)].key = km_last.pre.key

\* C9: whenever provision, get_key or rotate returns a key, that key is the
\* key of the device's current record and the record is Active: a revoked or
\* archived key is never handed out as the current key.
C9_OnlyActiveKeysReturned ==
    (km_last.op \in {"provision", "get_key", "rotate"} /\ km_last.exc = "none")
        => /\ LastId \in DOMAIN keys
           /\ LastRecord.status = "active"
           /\ LastRecord.key = km_last.ret

\* C10: get_key(id) on an absent id creates an Active record with a newly
\* generated key and returns it; get_key(id) on an Active record returns the
\* record's key; and the Active record of id is changed by no call other than
\* rotate(id) or revoke(id).
C10_AutoProvisionStable ==
    [][ /\ (km_last'.op = "get_key" /\ km_last'.pre.status = "absent")
            => /\ km_last'.gen /\ km_last'.exc = "none"
               /\ RecordOf(keys', km_last'.id).status = "active"
               /\ RecordOf(keys', km_last'.id).key = km_last'.ret
        /\ (km_last'.op = "get_key" /\ km_last'.pre.status = "active")
            => km_last'.exc = "none" /\ km_last'.ret = km_last'.pre.key
        /\ \A id \in DeviceIds :
              (/\ RecordOf(keys, id).status = "active"
               /\ ~(km_last'.id = id /\ km_last'.op \in {"rotate", "revoke"}))
                  => /\ RecordOf(keys', id).status = "active"
                     /\ RecordOf(keys', id).key = RecordOf(keys, id).key
      ]_vars

\* C32: revoke is idempotent: a second revoke(id) leaves the record's key and
\* status (Revoked) as the first revoke left them and touches no other record;
\* revoke(id) on an absent id creates no record and changes nothing, neither
\* in the key store nor in the key file.
C32_RevokeIdempotent ==
    [][ km_last'.op = "revoke" =>
          LET id == km_last'.id
          IN  /\ id \notin DOMAIN keys
                    => keys' = keys /\ key_file' = key_file /\ km_last'.exc = "none"
              /\ (id \in DOMAIN keys /\ keys[id].status = "revoked")
                    => /\ DOMAIN keys' = DOMAIN keys
                       /\ keys'[id].key = keys[id].key
                       /\ keys'[id].status = "revoked"
                       /\ \A other \in DOMAIN keys \ {id} : keys'[other] = keys[other]
      ]_vars

\* a second revoke of a revoked record has returned
C32_Witness ==
    /\ km_last.op = "revoke"
    /\ km_last.pre.status = "revoked"
    /\ km_last.exc = "none"
    /\ LastRecord.status = "revoked"
    /\ LastRecord.key = km_last.pre.key
    /\ Cardinality(DOMAIN keys) > 1

\* C36: revocation is permanent: get_key of a device whose record is Revoked
\* fails in the state after every call, whichever of provision, get_key,
\* rotate and revoke that call is.
C36_RevocationPermanent ==
    [][ \A id \in DeviceIds :
          (id \in DOMAIN keys /\ keys[id].status = "revoked")
              => \A rnd \in KeyValues : get_device_key(keys', id, rnd).exc # "none"
      ]_vars

\* C37: rotate(id) changes the record of id and writes the archive record of
\* id; the record of every other provisioned device (a record with a status,
\* Active or Revoked) is as it was, also that of the device whose identifier
\* is id followed by "_old".
C37_RotateFrame ==
    [][ km_last'.op = "rotate" =>
          \A other \in DOMAIN keys \ {km_last'.id} :
              keys[other].status \in {"active", "revoked"} => keys'[other] = keys[other]
      ]_vars

(***************************************************************************)
(* Claims about concurrent callers, checked under SpecThreads              *)
(***************************************************************************)
\* both threads have returned from a call for the same device_id, which was
\* in no record when either call began
C11_Case ==
    /\ \A t \in Threads : threads[t].pc = "done" /\ threads[t].unseen
    /\ threads["t1"].id = threads["t2"].id

\* C11: two threads that call get_device_key or provision_device for the same
\* unseen device_id get the same key under every interleaving, and it is the
\* key of the device's active record
C11_RaceSameKey ==
    C11_Case =>
        /\ \A t \in Threads : threads[t].exc = "none"
        /\ threads["t1"].ret = threads["t2"].ret
        /\ RecordOf(keys, threads["t1"].id).status = "active"
        /\ RecordOf(keys, threads["t1"].id).key = threads["t1"].ret

(***************************************************************************)
(* Claims about the key file, checked under SpecDisk                       *)
(***************************************************************************)
\* C12: once a provision, rotate or revoke call has returned, a KeyManager
\* newly constructed on the same key file loads the records the calling
\* instance holds in memory
C12_RecordsSurviveRestart ==
    (process_up /\ disk_last.op \in {"provision", "rotate", "revoke"}) =>
        LoadKeys(file_state, key_file) = keys

\* C13: a crash during a save leaves the key file with either the complete
\* previous content or the complete new content, so a restart loads one of
\* the two
C13_SaveAtomic ==
    (disk_last.outcome \in CrashOutcomes) =>
        LoadKeys(file_state, key_file) \in {disk_last.pre_loaded, keys}

(***************************************************************************)
(* Claims about AsconCrypto, checked under SpecCodec                       *)
(***************************************************************************)
\* the receiver got the ciphertext and nonce that encrypt produced
WireIntact ==
    /\ codec.wire.ciphertext = codec.enc.ciphertext
    /\ codec.wire.nonce = codec.enc.nonce

C15_NoPayloadUnauthenticated ==
    (/\ codec.phase = "decrypted"
     /\ codec.wire.nonce.len = NonceLen
     /\ codec.wire.ciphertext.tampered \/ codec.recv_key # codec.key) =>
        /\ codec.dec.exc = "ValueError"
        /\ codec.dec.payload = NoPayload

\* decrypt refused a tampered ciphertext under the right key, nonce untouched
C15_Witness ==
    /\ codec.phase = "decrypted"
    /\ codec.wire.ciphertext.tampered
    /\ codec.wire.nonce = codec.enc.nonce
    /\ codec.recv_key = codec.key
    /\ codec.payload = JDict(HeartRateSpo2)
    /\ codec.dec.exc = "ValueError"

\* C17: a key that is not 16 bytes is refused by the constructor, a nonce
\* that is not 16 bytes by encrypt and by decrypt; each raises and yields no
\* object, no ciphertext and no plaintext
C17_LengthsEnforced ==
    /\ (codec.phase # "input" /\ codec.key_hex.bytes # 16) =>
           (/\ codec.phase = "constructed"
            /\ codec.init_exc = (IF crypto_env = "ok" THEN "ValueError" ELSE "ImportError")
            /\ codec.key = 0)
    /\ (codec.phase \in {"encrypted", "received", "decrypted"}
          /\ codec.nonce_in # NoneNonce /\ codec.nonce_in.len # 16) =>
           (/\ codec.phase = "encrypted"
            /\ codec.enc.exc = "ValueError"
            /\ codec.enc.ciphertext = NoCiphertextBytes)
    /\ (codec.phase = "decrypted" /\ codec.wire.nonce.len # 16) =>
           (codec.dec.exc = "ValueError" /\ codec.dec.payload = NoPayload)

\* a short key was refused, or a short nonce was refused by encrypt or decrypt
C17_Witness ==
    \/ codec.phase = "constructed" /\ codec.key_hex = HexKey(1, 15, TRUE)
         /\ codec.init_exc = "ValueError"
    \/ codec.phase = "encrypted" /\ codec.nonce_in = Nonce(15, 1) /\ codec.enc.exc = "ValueError"
    \/ codec.phase = "decrypted" /\ codec.wire.nonce = Nonce(15, 1)
         /\ codec.dec.exc = "ValueError"

(***************************************************************************)
(* Claims about encode_payload / decode_payload, checked under SpecBase64  *)
(***************************************************************************)
\* C16: decode_payload(encode_payload(ciphertext, nonce)) returns exactly
\* (ciphertext, nonce), for every pair of byte strings
C16_Base64RoundTrip ==
    (b64.phase = "decoded") =>
        /\ b64.decoded.exc = "none"
        /\ b64.decoded.ciphertext = b64.ciphertext
        /\ b64.decoded.nonce = b64.nonce

\* byte strings whose lengths need one and two padding characters came back
C16_Witness ==
    /\ b64.phase = "decoded"
    /\ b64.ciphertext = <<255, 0>> /\ b64.nonce = <<77>>
    /\ b64.encoded.ciphertext = <<63, 48, 0, Pad>>
    /\ b64.decoded.ciphertext = <<255, 0>> /\ b64.decoded.nonce = <<77>>

(***************************************************************************)
(* Claims about the rolling store, checked under SpecTrack                 *)
(***************************************************************************)
\* C18: after n dispatches for a patient key the store's list for that key
\* has length min(n, 100) and holds exactly the most recent min(n, 100)
\* readings, in dispatch order
C18_RollingStore ==
    /\ DOMAIN patient_data_store = DOMAIN dispatch_log
    /\ \A patient_key \in DOMAIN dispatch_log :
         LET all == dispatch_log[patient_key]
             kept == patient_data_store[patient_key]
             n == Len(all)
         IN  /\ Len(kept) = (IF n < 100 THEN n ELSE 100)
             /\ \A i \in 1..Len(kept) : kept[i] = all[n - Len(kept) + i]

\* 150 readings of one patient were dispatched: the first 50 are gone
C18_Witness ==
    /\ <<"1", <<"2">>, <<"2">>, "7">> \in DOMAIN patient_data_store
    /\ LET kept == patient_data_store[<<"1", <<"2">>, <<"2">>, "7">>]
       IN  /\ Len(dispatch_log[<<"1", <<"2">>, <<"2">>, "7">>]) = 150
           /\ Len(kept) = 100
           /\ kept[1]["heart_rate"] = 51
           /\ kept[100]["heart_rate"] = 150

\* C19: for a message whose sender timestamp lies after the receipt time, no
\* negative network latency is stored: no histogram holds a negative sample,
\* no device's current network value is negative, and no recorded end-to-end
\* value (network latency plus handling time) was formed from a negative
\* network term, i.e. none is smaller than the handling time itself
C19_NoNegativeLatencyStored ==
    /\ \A name \in DOMAIN latency_metrics :
           \A sample \in latency_metrics[name] : sample[2] >= 0
    /\ \A dev \in DOMAIN current_latency : current_latency[dev].network >= 0
    /\ \A sample \in latency_metrics["end_to_end"] : sample[2] - TotalMs >= 0
    /\ \A dev \in DOMAIN current_latency :
           current_latency[dev].end_to_end # 0 => current_latency[dev].end_to_end - TotalMs >= 0

\* the patient_id the topic rule prescribes for a delivered message
PatientIdByRule(m) ==
    IF Len(m.topic) = 6 THEN m.topic[6]
    ELSE IF m.device_id.t = "str" /\ Len(m.device_id.v) > 1
    THEN m.device_id.v[Len(m.device_id.v)]
    ELSE "unknown"

\* C20: the patient_id comes from the topic only when the topic has exactly
\* six segments; for any other segment count the reading is filed under the
\* trailing '_' component of device_id, or under 'unknown' when there is none
C20_TopicOnlyWhenSixSegments ==
    last.dispatched =>
        \A patient_key \in DOMAIN patient_data_store :
            Len(ReadingsOf(last.pre.store, patient_key)) < Len(patient_data_store[patient_key])
                => patient_key[4] = PatientIdByRule(last.m)

\* the store keys that received a reading in the last call
GrownKeys ==
    {patient_key \in DOMAIN patient_data_store :
        Len(ReadingsOf(last.pre.store, patient_key)) < Len(patient_data_store[patient_key])}

\* C21: a dispatched reading is attributed according to the topic path: on a
\* six-segment topic hospital/h/ward/w/patient/p its store key, its metadata
\* and its gauge labels carry h, the department of w, w and p, whatever the
\* hospital and ward fields of the envelope body say
C21_MetadataFromTopic ==
    (last.dispatched /\ Len(last.m.topic) = 6) =>
        LET routing == <<last.m.topic[2], WardToDept(<<last.m.topic[4]>>),
                         <<last.m.topic[4]>>, last.m.topic[6]>>
        IN  /\ GrownKeys = {routing}
            /\ LET readings == patient_data_store[routing]
                   reading == readings[Len(readings)]
               IN  <<reading["hospital"], reading["dept"], reading["ward"], reading["patient"]>>
                       = routing
            /\ \A f \in (DOMAIN last.m.vitals.v) \cap GaugeFields :
                   last.m.vitals.t = "dict" => <<f, routing>> \in DOMAIN gauges

\* the reasons on_mqtt_message gives to failures other than revocation
OtherFailureReasons == {"auth_failed", "decryption_error", "crypto_unavailable"}

\* the case of C22: an encrypted envelope with decodable crypto fields from a
\* device whose record in the backend key store is revoked
C22_Case ==
    /\ RoutingWellTyped /\ CryptoFieldsDecode
    /\ crypto_env # "no_crypto_utils"
    /\ last.m.encrypted = Val("bool", TRUE)
    /\ last.pre.rec.status = "revoked"

\* C22: an encrypted message of a revoked device is dropped, the failure
\* counter grows under a reason that names the revocation (a reason no other
\* failure is counted under), and the device's record stays as it was
C22_RevokedDropped ==
    C22_Case =>
        /\ ~last.dispatched
        /\ last.reason \notin OtherFailureReasons \cup {"none"}
        /\ RecordOf(keys, DeviceOf(last.m)) = last.pre.rec

\* C25: delivering the envelope that was handled last once more leaves the
\* rolling store and the gauges as the first delivery left them
C25_RedeliveryIdempotent ==
    [][(handled >= 1 /\ handled' = handled + 1 /\ last.dispatched /\ last'.m = last.m)
           => (patient_data_store' = patient_data_store /\ gauges' = gauges)]_vars

\* the case of C26: the last envelope breaks the envelope invariant
C26_Case ==
    /\ handled > 0
    /\ last.m.form = "dict"
    /\ \/ /\ last.m.encrypted = Val("bool", TRUE)
          /\ ~CryptoFieldsDecode
       \/ /\ last.m.encrypted.t = "absent" \/ last.m.encrypted = Val("bool", FALSE)
          /\ last.m.vitals.t = "absent"

\* C26: an encrypted envelope without ciphertext or nonce or with invalid
\* base64, and a plaintext envelope without its vitals field, are dropped:
\* no reading is dispatched for them
C26_InvalidEnvelopeDropped ==
    C26_Case => (~last.dispatched /\ GrownKeys = {})

\* C27: when the codec or the key manager is unavailable, an encrypted message
\* is dropped under the reason crypto_unavailable with nothing dispatched,
\* and a plaintext message carrying vitals is still dispatched
C27_CryptoUnavailable ==
    (RoutingWellTyped /\ crypto_env \in {"no_ascon", "no_crypto_utils"}) =>
        /\ last.m.encrypted = Val("bool", TRUE) =>
               (last.reason = "crypto_unavailable" /\ ~last.dispatched)
        /\ (last.m.encrypted = Val("bool", FALSE) /\ last.m.vitals.t = "dict") =>
               last.dispatched

(***************************************************************************)
(* Claims about the backend process, checked under SpecSub                 *)
(***************************************************************************)
\* the scorer's reply to the last handled message was a failure
ScorerFailed == sub.ml \in MLReplies \ {"ok"}

\* the case of C23: on_mqtt_message has returned for a message whose scorer
\* call or storage call failed
C23_Case ==
    /\ handled > 0
    /\ sub.pc = "loop"
    /\ last.m = sub.m
    /\ sub.db # "none"
    /\ ScorerFailed \/ ~sub.saved

\* C23: when the scorer call fails, times out or answers with another status
\* the reading's anomaly_score is 0, and when the storage call fails nothing
\* else changes: the handler does not raise, the reading with the vitals of
\* the envelope is appended to the rolling store and its gauges are set
C23_DownstreamNonFatal ==
    C23_Case =>
        /\ last.escaped = "none" /\ last.exc = "none" /\ subscriber_running
        /\ last.dispatched
        /\ \E patient_key \in GrownKeys :
              LET readings == patient_data_store[patient_key]
                  reading == readings[Len(readings)]
              IN  /\ GrownKeys = {patient_key}
                  /\ Len(readings) = Len(ReadingsOf(last.pre.store, patient_key)) + 1
                  /\ \A f \in DOMAIN last.m.vitals.v \ {"anomaly_score"} :
                        reading[f] = last.m.vitals.v[f]
                  /\ ScorerFailed => reading["anomaly_score"] = 0
                  /\ \A f \in (DOMAIN reading) \cap GaugeFields :
                        /\ <<f, patient_key>> \in DOMAIN gauges
                        /\ gauges[<<f, patient_key>>] = reading[f]

\* the scorer timed out and the sink refused the connection for the second
\* message, whose reading is stored with score 0
C23_Witness ==
    /\ C23_Case
    /\ handled = 2
    /\ sub.ml = "timeout"
    /\ sub.db = "refused"
    /\ last.dispatched
    /\ \E patient_key \in GrownKeys :
          patient_data_store[patient_key][Len(patient_data_store[patient_key])]["anomaly_score"] = 0

\* C24: the scorer and storage calls do not run on the callback thread: while
\* a downstream call of one message is outstanding and another message is
\* waiting, the handler for the waiting message can start
C24_DownstreamOffCallbackThread ==
    (sub.pc \in {"in_ml", "in_db"} /\ sub.queue # <<>>) => ENABLED HandlerStart

\* C29: every save request the backend has sent carries the fields the sink's
\* handler requires, so the handler does not answer it with 400
C29_SaveRequestShape ==
    \A i \in 1..Len(sink.log) :
        LET request == sink.log[i].request
        IN  /\ SinkRequiredFields \subseteq DOMAIN request.body
            /\ api_save_encrypted_vitals(request.body, sink.db_key_env).status # 400

\* C30: when the connection on the TLS port and the fallback on the plain
\* port have both failed, the backend does not go on serving: the Flask app
\* is not running without a subscriber, and no health check is answered
\* 'healthy' after the subscriber thread has ended
C30_StartupFailureSurfaced ==
    /\ (sub.pc = "failed" /\ sub.tls_failed) => sub.main # "serving"
    /\ (sub.health.asked /\ sub.health.subscriber = "failed") => sub.health.status # "healthy"

(***************************************************************************)
(* Claims about concurrent dispatch, checked under SpecRace                *)
(***************************************************************************)
\* C28: access to a patient key's list is synchronized: whenever no thread is
\* inside process_patient_data, every reading that was appended is in the
\* list, except those the 100-entry cap removed as the oldest
C28_ConcurrentDispatchKeepsBoth ==
    (\A t \in Racers : racers[t].pc = "idle") =>
        LET all == ReadingsOf(dispatch_log, RaceKey)
            kept == ReadingsOf(patient_data_store, RaceKey)
        IN  \A i \in 1..Len(all) :
                i > Len(all) - StoreCap => \E j \in 1..Len(kept) : kept[j] = all[i]

(***************************************************************************)
(* Claims about revoked devices, rejected messages and the message         *)
(* counters, checked under Spec                                            *)
(***************************************************************************)
\* C34: no reading is dispatched from a message whose device_id has a Revoked
\* record in the backend key store when the message arrives, whether the
\* envelope is encrypted or plaintext
C34_RevokedNeverDispatched ==
    (handled >= 1 /\ last.pre.rec.status = "revoked") => ~last.dispatched

DownstreamCalls == {"call_ml_service", "save_vitals_to_database", "process_patient_data"}

\* C38: a delivery that ends in a counted decryption failure (authentication
\* failure, bad base64, wrong nonce length, revoked device, crypto
\* unavailable) leaves the rolling store and every vitals gauge as they were
\* and calls neither the scorer nor the storage sink nor the dispatcher
C38_RejectionChangesNothing ==
    [][ (handled' = handled + 1 /\ last'.reason # "none")
            => /\ patient_data_store' = patient_data_store
               /\ gauges' = gauges
               /\ last'.calls \cap DownstreamCalls = {}
               /\ ~last'.dispatched
      ]_vars

\* a message was rejected after an earlier one had been dispatched
C38_Witness ==
    /\ handled = 2
    /\ last.reason = "auth_failed"
    /\ last.m.encrypted = Val("bool", TRUE)
    /\ last.pre.store # EmptyDict
    /\ patient_data_store = last.pre.store
    /\ gauges # EmptyDict

\* the total of a function's values over its domain
RECURSIVE SumOver(_, _)
SumOver(d, labels) ==
    IF labels = {} THEN 0
    ELSE LET k == CHOOSE x \in labels : TRUE
         IN  d[k] + SumOver(d, labels \ {k})

SumOf(d) == SumOver(d, DOMAIN d)

\* A labelled counter is a bag of its label sets: each label set occurs as
\* often as it was incremented, and the bag's cardinality is the counter's
\* total over all label sets.
\* C39: encrypted_messages equals the sum of decryption_success over all
\* devices plus the sum of decryption_failure over all devices and reasons
C39_CountersConserved ==
    security_metrics.encrypted_messages =
        BagCardinality(security_metrics.decryption_success)
            + BagCardinality(security_metrics.decryption_failure)

\* one encrypted message was decrypted and another was rejected
C39_Witness ==
    /\ security_metrics.encrypted_messages = 2
    /\ SumOf(security_metrics.decryption_success) = 1
    /\ SumOf(security_metrics.decryption_failure) = 1

(***************************************************************************)
(* Claims about the simulator and the two key managers, checked under      *)
(* SpecSim                                                                 *)
(***************************************************************************)
\* the simulator has just seen a device for the first time and encrypted its
\* vitals under the key its key manager generated, and the backend's key
\* store has no record of the device yet
C33_Case ==
    /\ sim.last.called /\ sim.last.attempted
    /\ sim.last.pre.status = "absent"
    /\ sim.last.encrypt = "none"
    /\ sim.last.device \notin DOMAIN keys

\* C33: for a device_id both sides see for the first time, the key the
\* backend's key manager returns for the device is the key the simulator's
\* key manager used, so that what the simulator encrypted authenticates at
\* the backend
C33_SameKeyBothSides ==
    C33_Case =>
        \A rnd \in KeyValues :
            LET got == get_device_key(keys, sim.last.device, rnd)
                crypto == AsconCrypto_init(HexKey(got.ret, KeyLen, TRUE), crypto_env)
            IN  /\ got.exc = "none"
                /\ got.ret = sim.last.key
                /\ AsconCrypto_decrypt(crypto.key, sim.last.enc.ciphertext,
                                       sim.last.enc.nonce).exc = "none"

\* the envelope is an encrypted one: encrypted=true, base64 text for the
\* ciphertext and for a nonce of 16 bytes
IsEncryptedEnvelope(m) ==
    /\ m.encrypted = Val("bool", TRUE)
    /\ m.ciphertext.t = "str" /\ m.ciphertext.v.valid
    /\ m.nonce.t = "str" /\ m.nonce.v.valid
    /\ m.nonce.v.bytes.len = NonceLen

\* C35: an envelope handed to the MQTT client is an encrypted one whenever
\* the crypto utilities are available, the device's key was Active and
\* AsconCrypto.encrypt returned; it is a plaintext one only when the crypto
\* utilities are unavailable or the key lookup, the AsconCrypto constructor
\* or encrypt raised
C35_EncryptedWhenPossible ==
    sim.last.handed =>
        /\ (/\ sim.last.attempted
            /\ sim.last.pre.status = "active"
            /\ sim.last.encrypt = "none")
               => IsEncryptedEnvelope(sim.last.envelope)
        /\ sim.last.envelope.encrypted = Val("bool", FALSE)
               => \/ ~sim.last.attempted
                  \/ sim.last.lookup # "none"
                  \/ sim.last.init # "none"
                  \/ sim.last.encrypt # "none"

(***************************************************************************)
(* Claims about the simulator's batch loop, checked under SpecPool         *)
(***************************************************************************)
\* the publish tasks a worker thread has started and not finished
InFlight == SumOf([batch \in DOMAIN pool.started |-> pool.started[batch] - pool.finished[batch]])

\* the number of sheets that have a row for the batch
BatchSize(batch) == Cardinality(PatientTasks(pool.sheet_data, batch - 1))

C40_Safety ==
    /\ InFlight <= MaxWorkers
    /\ \A batch \in DOMAIN pool.started :
          (batch > 1 /\ pool.submitted[batch] > 0)
              => /\ pool.finished[batch - 1] = BatchSize(batch - 1)
                 /\ BatchSize(batch - 1) > 0
    /\ pool.pc \in {"cleanup", "done"}
          => /\ \A sheet \in DOMAIN pool.sheet_data : pool.sheet_data[sheet] <= pool.row_index
             /\ \A batch \in DOMAIN pool.finished : pool.finished[batch] = BatchSize(batch)
    /\ pool.disconnected => pool.pc = "done"

\* C40: at most 15 publish tasks are in flight at any time; no task of batch
\* k+1 is submitted or started before every task of batch k has finished; the
\* loop ends only when every sheet's rows are exhausted and every row has
\* been published, the broker is disconnected only after that, and a loop
\* that has begun does end and disconnect
C40_BoundedBatches ==
    /\ []C40_Safety
    /\ (pool.pc = "collect") ~> pool.disconnected

\* a run of two batches, the first with more tasks than workers, has ended
C40_Witness ==
    /\ pool.disconnected
    /\ pool.row_index = MaxRows
    /\ pool.finished[1] > MaxWorkers
    /\ pool.workers[1] = MaxWorkers

(***************************************************************************)
(* Claim about shutdown, checked under SpecSub                             *)
(***************************************************************************)
\* C31: shutdown is graceful: when the process has ended on a shutdown
\* request and the broker connection is gone, no message handler was cut off
\* in flight, that is, while it waited for the scorer or the storage sink
C31_GracefulShutdown ==
    sub.main = "exited" => sub.killed_in \notin {"in_ml", "in_db"}

====
